---- MODULE Spec2Model ----
(***************************************************************************)
(* A model of wgpu-mc's native palette registry                            *)
(* (rust/wgpu-mc-jni/src/palette.rs): the JavaPalette table, the           *)
(* process-wide Slab of palettes behind PALETTE_STORAGE, and the foreign   *)
(* entry points that create, clear, destroy, index, size, copy, get,       *)
(* bulk-decode and debug palettes, called one at a time (Spec, SpecSingle) *)
(* and from several threads (SpecLock); of its variable-length integers    *)
(* (SpecVarInt); and of the replay of recorded GL commands                 *)
(* (rust/wgpu-mc-jni/src/gl/pipeline.rs, SpecReplay).                      *)
(*                                                                         *)
(* Positions and handles are 0-based as in the source; TLA+ sequences are  *)
(* 1-based, so store position p is store[p + 1] and slab key k is          *)
(* entries[k + 1].                                                         *)
(***************************************************************************)
EXTENDS Integers, Sequences, FiniteSets, TLC

(***************************************************************************)
(* Bounds of the model.                                                    *)
(***************************************************************************)
\* The slab never holds more than MaxSlab slots (occupied or vacant).
MaxSlab == 2
\* The stores of all live palettes together never hold more than MaxEntries.
MaxEntries == 2

(***************************************************************************)
(* Inputs of the foreign calls.                                            *)
(***************************************************************************)
\* Host objects (JObject / GlobalRef): opaque tokens, stored and returned.
Hosts == {"h1", "h2"}
NoHost == "none"

\* jint block-state indices passed to paletteIndex: 0x00030000, 0x00040001.
BlockstateIndices == {196608, 262145}

\* jlong id-list handles passed to createPalette; 0 is the null handle.
IdListHandles == {0, 1, 2}

\* The host-side directories behind the two valid id-list handles
\* (IdList.map: HashMap<i32, GlobalRef>).
IdListMap(id_list) ==
    IF id_list = 1 THEN (0 :> "h1" @@ 1 :> "h2" @@ 128 :> "h2")
    ELSE (0 :> "h2")

\* The most negative jint (i32::MIN), which is also a jlong.
JIntMin == (0 - 2147483647) - 1

\* jlong palette handles a caller may pass: every slab key, -1 and i32::MIN.
PaletteHandles == ((0 - 1) .. (MaxSlab - 1)) \cup {JIntMin}

\* Byte buffers (viewed as u8) handed to paletteReadPacket.
PacketBuffers ==
    { <<2, 0, 1>>,                      \* count 2, keys 0 and 1
      <<9, 1, 128, 1>>,                 \* from offset 1: count 1, key 128 on two bytes
      <<2, 0, 5>>,                      \* count 2, second key in no id-list
      <<2, 0, 128>>,                    \* count 2, second key cut short
      <<128, 128, 128, 128, 128, 1>> }  \* five continuation bytes
StartOffsets == {0, 1}

\* jint arrays handed to paletteReadPacket as blockstate_offsets:
\* 0x00030000 and 0x00040001.
OffsetArrays == { <<196608>>, <<196608, 262145>> }

\* What the host's Wgpu.debug does when debugPalette calls it: the ordinal
\* of the call that comes back as an error (a pending exception), 0 for none.
UpcallFailures == 0 .. MaxEntries

\* jint positions passed to paletteGet: every position of a store, one past
\* the longest, -1 and i32::MIN.
GetPositions == ((0 - 1) .. MaxEntries) \cup {JIntMin}

(***************************************************************************)
(* Integer conversions.                                                    *)
(***************************************************************************)
\* The largest integer of the model (TLC's integers are 32 bits wide).  It
\* stands for every usize from 2^31 - 1 up to usize::MAX.
UsizeMax == 2147483647

\* `x as usize` of a jlong or an i32: the value is sign-extended to 64 bits
\* and read as unsigned, so a negative x becomes 2^64 + x, which is at least
\* 2^64 - 2^63 and so above every integer of the model: it is UsizeMax here,
\* for -1 as for i32::MIN.  It is never zero and never below a Vec's or a
\* Slab's length.
AsUsize(x) == IF x >= 0 THEN x ELSE UsizeMax

\* A split of blockstate_offset with block and augment exchanged.
BlockstateKeyOf_swapped(packed) == << packed % 65536, (packed \div 65536) % 65536 >>

\* BlockstateKey { block: (blockstate_offset >> 16) as u16,
\*                 augment: (blockstate_offset & 0xffff) as u16 }
BlockstateKeyOf(packed) == << (packed \div 65536) % 65536, packed % 65536 >>

\* BlockstateKey::from(blockstate_index as u32): the packed value's high 16
\* bits are the block index, its low 16 bits the augment index.
BlockstateKeyFrom(packed) == << (packed \div 65536) % 65536, packed % 65536 >>

(***************************************************************************)
(* JavaPalette.                                                            *)
(***************************************************************************)
EmptyMap == [k \in {} |-> 0]

MapPut(m, k, v) == [x \in (DOMAIN m) \cup {k} |-> IF x = k THEN v ELSE m[x]]

\* A JavaPalette::new that binds every palette to id-list 1.
JavaPalette_new_unbound(id_list) ==
    [occ |-> TRUE, store |-> <<>>, indices |-> EmptyMap, id_list |-> 1]

\* JavaPalette::new
JavaPalette_new(id_list) ==
    [occ |-> TRUE, store |-> <<>>, indices |-> EmptyMap, id_list |-> id_list]

\* A JavaPalette::index that never looks the key up.
JavaPalette_index_nolookup(p, element) ==
    LET st == Append(p.store, element) IN
    [pal |-> [p EXCEPT !.indices = MapPut(p.indices, element[2], Len(p.store)),
                       !.store = st],
     ret |-> Len(st) - 1]

\* A JavaPalette::index that stores the new host over the one already there.
JavaPalette_index_rebind(p, element) ==
    IF element[2] \in DOMAIN p.indices
    THEN [pal |-> [p EXCEPT !.store[p.indices[element[2]] + 1] = element],
          ret |-> p.indices[element[2]]]
    ELSE JavaPalette_index_nolookup(p, element)

\* JavaPalette::index, element = <<host, key>>; the palette after the call
\* and the position returned.
JavaPalette_index(p, element) ==
    IF element[2] \in DOMAIN p.indices
    THEN [pal |-> p, ret |-> p.indices[element[2]]]
    ELSE LET ind == MapPut(p.indices, element[2], Len(p.store))
             st  == Append(p.store, element)
         IN  [pal |-> [p EXCEPT !.indices = ind, !.store = st],
              ret |-> Len(st) - 1]

\* A JavaPalette::add that keeps the first index mapping of a key.
JavaPalette_add_keepfirst(p, element) ==
    [p EXCEPT !.indices = IF element[2] \in DOMAIN p.indices THEN p.indices
                          ELSE MapPut(p.indices, element[2], Len(p.store)),
              !.store = Append(p.store, element)]

\* JavaPalette::add
JavaPalette_add(p, element) ==
    [p EXCEPT !.indices = MapPut(p.indices, element[2], Len(p.store)),
              !.store = Append(p.store, element)]

\* JavaPalette::size
JavaPalette_size(p) == Len(p.store)

\* Vec::get
VecGet(v, i) == IF i < Len(v) THEN <<v[i + 1]>> ELSE <<>>

\* A JavaPalette::get without the fallback to position 0.
JavaPalette_get_nofallback(p, i) == VecGet(p.store, i)

\* JavaPalette::get: the Option as a sequence of length 0 (None) or 1 (Some).
JavaPalette_get(p, i) ==
    IF VecGet(p.store, i) # <<>> THEN VecGet(p.store, i) ELSE VecGet(p.store, 0)

\* A JavaPalette::clear that forgets the reverse index.
JavaPalette_clear_storeonly(p) == [p EXCEPT !.store = <<>>]

\* JavaPalette::clear
JavaPalette_clear(p) == [p EXCEPT !.store = <<>>, !.indices = EmptyMap]

(***************************************************************************)
(* State.                                                                  *)
(***************************************************************************)
VARIABLES
    entries,   \* PALETTE_STORAGE: the slab's slots, occupied or vacant
    next,      \* PALETTE_STORAGE: the slab's free-list head
    last,      \* the last foreign call: its inputs, its result, whether it was fatal
    first,     \* per slot, the position the first index call returned for each key
    destroyed, \* the handles destroyPalette has removed so far, where kept
    lock,      \* PALETTE_STORAGE: the RwLock's holders
    thr,       \* per thread, the foreign call it is in and how far it has got
    commands,  \* GlPipeline.commands: the published command sequence
    recording, \* the command sequence the recorder is building
    gl_alloc,  \* GL_ALLOC: the texture directory, by texture-unit identifier
    pass,      \* GlPipeline::render: the replay in progress on the render thread
    prev,      \* the replay completed last: what it walked and what it issued
    black_texture, \* GlPipeline.black_texture: the OnceCell, empty or set
    device,    \* the textures build_wgpu_pipelines has made, the passes begun
    cursor,    \* a Cursor over a byte slice and the outcome of its last read_var_int
    walk       \* the steps a walker has taken along Directions, and where it is

\* The command-buffer engine's state.
glVars == <<commands, recording, gl_alloc, pass, prev, black_texture, device>>

\* What the palette entry points leave alone when called one at a time.
notPalette == <<lock, thr, glVars, cursor, walk>>

vars == <<entries, next, last, first, destroyed, lock, thr,
          commands, recording, gl_alloc, pass, prev, black_texture, device,
          cursor, walk>>

(***************************************************************************)
(* Slab<JavaPalette>.                                                      *)
(***************************************************************************)
Vacant(n) == [occ |-> FALSE, next |-> n]

\* Slab::get / Slab::get_mut: whether key holds a palette.
SlabContains(es, key) == key < Len(es) /\ es[key + 1].occ

\* A Slab::insert that never goes back to a vacant slot.
SlabInsert_append(es, nx, val) ==
    [entries |-> Append(es, val), next |-> nx, key |-> Len(es)]

\* Slab::insert: the new value goes to the free-list head.
SlabInsert(es, nx, val) ==
    IF nx = Len(es)
    THEN [entries |-> Append(es, val), next |-> nx + 1, key |-> nx]
    ELSE [entries |-> [es EXCEPT ![nx + 1] = val],
          next |-> es[nx + 1].next, key |-> nx]

\* A Slab::remove that drops the slots from key on.
SlabRemove_truncate(es, nx, key) ==
    [entries |-> SubSeq(es, 1, key), next |-> key]

\* Slab::remove of an occupied key: the slot joins the free list.
SlabRemove(es, nx, key) ==
    [entries |-> [es EXCEPT ![key + 1] = Vacant(nx)], next |-> key]

LiveHandles == {k \in 0 .. (Len(entries) - 1) : entries[k + 1].occ}

Palette(h) == entries[h + 1]

TotalEntries ==
    LET RECURSIVE Sum(_)
        Sum(i) == IF i = 0 THEN 0
                  ELSE Sum(i - 1) + (IF entries[i].occ THEN Len(entries[i].store) ELSE 0)
    IN  Sum(Len(entries))

(***************************************************************************)
(* The record of the last call.                                            *)
(***************************************************************************)
NoCall ==
    [op |-> "none", h |-> 0, host |-> NoHost, key |-> <<0, 0>>, pos |-> 0,
     buf |-> <<>>, start |-> 0, offs |-> <<>>, id_list |-> 0,
     ret |-> 0, got |-> <<>>, fatal |-> FALSE]

Call(op, h) == [NoCall EXCEPT !.op = op, !.h = h]

(***************************************************************************)
(* What the caller has seen of each palette since it was last empty: for   *)
(* a palette filled by index calls alone, first maps every key passed to   *)
(* index to the position the first such call returned (a copy starts with  *)
(* what its source had); once add has been called on it, Tainted.          *)
(***************************************************************************)
NoneSeen == [tainted |-> FALSE, map |-> EmptyMap]
Tainted == [tainted |-> TRUE, map |-> EmptyMap]

FirstIndex(f, key, ret) ==
    IF f.tainted \/ key \in DOMAIN f.map THEN f
    ELSE [f EXCEPT !.map = MapPut(f.map, key, ret)]

\* The threads that call into the registry, and the lock with no holder.
Threads == {"t1", "t2"}
NoThread == "nobody"
Idle == [pc |-> "idle", call |-> NoCall, tmp |-> <<>>]
Unlocked == [writer |-> NoThread, readers |-> {}]

\* GLCommand: the variant and its payload (a matrix, a colour and a buffer
\* are opaque tokens; a pipeline index, a count and a texture-unit
\* identifier are themselves).
GLCommand(cmd, arg) == [cmd |-> cmd, arg |-> arg]

\* No replay in progress, and no replay completed yet.  frame is the
\* ordinal of the render pass, arena the objects placed in its WmArena so
\* far, binds the object each call of calls binds.
NoPass == [active |-> FALSE, snapshot |-> <<>>, atStart |-> <<>>, pos |-> 0,
           replayed |-> <<>>, calls |-> <<>>, frame |-> 0, arena |-> <<>>,
           binds |-> <<>>]
NoPrev == [valid |-> FALSE, walked |-> <<>>, atStart |-> <<>>, calls |-> <<>>,
           tex |-> <<>>, arena |-> <<>>]

\* No object: what a call binds when it binds nothing.
NoObject == <<0, 0>>

\* The device before any build and any render pass.
NoDevice == [textures |-> 0, passes |-> 0]

\* The texture-unit identifiers of the model and what the directory may
\* hold for one: nothing, a unit without a texture object, a unit with one.
TextureIds == {1}
TexStates == {"absent", "empty", "bound"}

\* No cursor yet.
NoCursor == [open |-> FALSE, vec |-> <<>>, from |-> 0, pos |-> 0, value |-> 0,
             reads |-> 0, fatal |-> FALSE]

\* A walker at the origin that has taken no step.
NoWalk == [steps |-> <<>>, at |-> <<0, 0, 0>>]

\* The record of destroyed handles: not kept, and kept with none so far.
NotKept == [kept |-> FALSE, handles |-> {}]
NoneDestroyed == [kept |-> TRUE, handles |-> {}]

\* The state after start-up, but for the record of destroyed handles.
Start ==
    /\ cursor = NoCursor
    /\ walk = NoWalk
    /\ commands = <<>>
    /\ recording = <<>>
    /\ gl_alloc = [t \in TextureIds |-> "absent"]
    /\ pass = NoPass
    /\ prev = NoPrev
    /\ black_texture = <<>>
    /\ device = NoDevice
    /\ lock = Unlocked
    /\ thr = [t \in Threads |-> Idle]
    /\ entries = <<>>
    /\ next = 0
    /\ last = NoCall
    /\ first = <<>>

Init == Start /\ destroyed = NotKept

\* The same state, with the record of destroyed handles kept from here on.
InitStale == Start /\ destroyed = NoneDestroyed

(***************************************************************************)
(* Foreign entry points, called by one caller at a time.  A fatal call (a   *)
(* panic in the native code) ends the process: with no other caller        *)
(* nothing runs between the panic and the abort, or after it.              *)
(***************************************************************************)
Running == ~last.fatal

Fatal(call) ==
    /\ last' = [call EXCEPT !.fatal = TRUE]
    /\ UNCHANGED <<entries, next, first, destroyed>>

\* Java_dev_birb_wgpu_rust_WgpuNative_createPalette
createPalette(idList) ==
    /\ Running
    /\ UNCHANGED notPalette
    /\ LET call == [Call("create", 0) EXCEPT !.id_list = idList] IN
       IF AsUsize(idList) = 0
       THEN Fatal(call)
       ELSE LET ins == SlabInsert(entries, next, JavaPalette_new(AsUsize(idList))) IN
            /\ Len(ins.entries) <= MaxSlab
            /\ entries' = ins.entries
            /\ next' = ins.next
            /\ first' = IF ins.key = Len(first) THEN Append(first, NoneSeen)
                        ELSE [first EXCEPT ![ins.key + 1] = NoneSeen]
            /\ last' = [call EXCEPT !.ret = ins.key]
            /\ UNCHANGED destroyed

\* Java_dev_birb_wgpu_rust_WgpuNative_paletteIndex
paletteIndex(palette_long, object, blockstate_index) ==
    /\ Running
    /\ UNCHANGED notPalette
    /\ LET key  == BlockstateKeyFrom(blockstate_index)
           call == [Call("index", palette_long) EXCEPT !.host = object, !.key = key]
       IN
       IF ~SlabContains(entries, AsUsize(palette_long))
       THEN Fatal(Call("index", palette_long))
       ELSE LET h == AsUsize(palette_long)
                r == JavaPalette_index(Palette(h), <<object, key>>)
            IN
            /\ TotalEntries - Len(Palette(h).store) + Len(r.pal.store) <= MaxEntries
            /\ entries' = [entries EXCEPT ![h + 1] = r.pal]
            /\ first' = [first EXCEPT ![h + 1] = FirstIndex(@, key, r.ret)]
            /\ last' = [call EXCEPT !.ret = r.ret]
            /\ UNCHANGED <<next, destroyed>>

\* JavaPalette::add called on the palette behind handle h.
add(h, object, key) ==
    /\ Running
    /\ UNCHANGED notPalette
    /\ h \in LiveHandles
    /\ TotalEntries + 1 <= MaxEntries
    /\ entries' = [entries EXCEPT ![h + 1] = JavaPalette_add(@, <<object, key>>)]
    /\ first' = [first EXCEPT ![h + 1] = Tainted]
    /\ last' = [Call("add", h) EXCEPT !.host = object, !.key = key]
    /\ UNCHANGED <<next, destroyed>>

\* Java_dev_birb_wgpu_rust_WgpuNative_clearPalette
clearPalette(palette_long) ==
    /\ Running
    /\ UNCHANGED notPalette
    /\ LET call == Call("clear", palette_long) IN
       IF ~SlabContains(entries, AsUsize(palette_long))
       THEN Fatal(call)
       ELSE LET h == AsUsize(palette_long) IN
            /\ entries' = [entries EXCEPT ![h + 1] = JavaPalette_clear(@)]
            /\ first' = [first EXCEPT ![h + 1] = NoneSeen]
            /\ last' = call
            /\ UNCHANGED <<next, destroyed>>

\* Java_dev_birb_wgpu_rust_WgpuNative_destroyPalette
destroyPalette(palette_long) ==
    /\ Running
    /\ UNCHANGED notPalette
    /\ LET call == Call("destroy", palette_long) IN
       IF ~SlabContains(entries, AsUsize(palette_long))
       THEN Fatal(call)
       ELSE LET h   == AsUsize(palette_long)
                rem == SlabRemove(entries, next, h)
            IN
            /\ entries' = rem.entries
            /\ next' = rem.next
            /\ first' = [first EXCEPT ![h + 1] = NoneSeen]
            /\ destroyed' = IF destroyed.kept
                            THEN [destroyed EXCEPT !.handles = @ \cup {h}]
                            ELSE destroyed
            /\ last' = call

\* Java_dev_birb_wgpu_rust_WgpuNative_paletteSize
paletteSize(palette_long) ==
    /\ Running
    /\ UNCHANGED notPalette
    /\ LET call == Call("size", palette_long) IN
       IF ~SlabContains(entries, AsUsize(palette_long))
       THEN Fatal(call)
       ELSE /\ last' = [call EXCEPT !.ret = JavaPalette_size(Palette(AsUsize(palette_long)))]
            /\ UNCHANGED <<entries, next, first, destroyed>>

\* A clone that rebuilds nothing of the reverse index.
JavaPalette_clone_noindices(p) ==
    [occ |-> TRUE, store |-> p.store, indices |-> EmptyMap, id_list |-> p.id_list]

\* #[derive(Clone)] on JavaPalette: a deep copy of store, indices and id_list.
JavaPalette_clone(p) ==
    [occ |-> TRUE, store |-> p.store, indices |-> p.indices, id_list |-> p.id_list]

\* Java_dev_birb_wgpu_rust_WgpuNative_copyPalette
copyPalette(palette_long) ==
    /\ Running
    /\ UNCHANGED notPalette
    /\ LET call == Call("copy", palette_long) IN
       IF ~SlabContains(entries, AsUsize(palette_long))
       THEN Fatal(call)
       ELSE LET h   == AsUsize(palette_long)
                ins == SlabInsert(entries, next, JavaPalette_clone(Palette(h)))
            IN
            /\ Len(ins.entries) <= MaxSlab
            /\ TotalEntries + Len(Palette(h).store) <= MaxEntries
            /\ entries' = ins.entries
            /\ next' = ins.next
            /\ first' = IF ins.key = Len(first) THEN Append(first, first[h + 1])
                        ELSE [first EXCEPT ![ins.key + 1] = first[h + 1]]
            /\ last' = [call EXCEPT !.ret = ins.key]
            /\ UNCHANGED destroyed

\* Java_dev_birb_wgpu_rust_WgpuNative_paletteGet
paletteGet(palette_long, index) ==
    /\ Running
    /\ UNCHANGED notPalette
    /\ LET call == [Call("get", palette_long) EXCEPT !.pos = index] IN
       IF ~SlabContains(entries, AsUsize(palette_long))
       THEN Fatal(Call("get", palette_long))
       ELSE LET r == JavaPalette_get(Palette(AsUsize(palette_long)), AsUsize(index)) IN
            IF r = <<>>
            THEN Fatal(call)
            ELSE /\ last' = [call EXCEPT !.got = r, !.host = r[1][1]]
                 /\ UNCHANGED <<entries, next, first, destroyed>>

(***************************************************************************)
(* paletteReadPacket.                                                      *)
(***************************************************************************)
\* VarInt holds at most this many bytes.
VarIntSize == 5

\* i32::from(VarInt): 7 payload bits per byte, low to high; on the fifth byte
\* only bits 28..31 fit, bit 31 being the sign.
VarIntPayload(acc, ptr, byte) ==
    LET bits == byte % 128 IN
    IF ptr < 4 THEN acc + bits * (2 ^ (7 * ptr))
    ELSE IF bits % 16 >= 8
         THEN ((acc + (bits % 8) * 268435456) - 2147483647) - 1
         ELSE acc + (bits % 8) * 268435456

\* A read that takes every continuation byte, however many.
RECURSIVE ReadVarIntFrom_nolimit(_, _, _, _)
ReadVarIntFrom_nolimit(vec, pos, ptr, acc) ==
    IF pos >= Len(vec) THEN [ok |-> FALSE, value |-> 0, pos |-> pos]
    ELSE LET byte == vec[pos + 1]
             v    == IF ptr < 5 THEN VarIntPayload(acc, ptr, byte) ELSE acc
         IN  IF byte < 128 THEN [ok |-> TRUE, value |-> v, pos |-> pos + 1]
             ELSE ReadVarIntFrom_nolimit(vec, pos + 1, ptr + 1, v)

\* Cursor::read_var_int at position pos of vec: a byte is read (an error at
\* the end of the buffer), a sixth byte is an error, a byte with bit 7 clear
\* ends the value.  The result: ok, the value and the position after it.
RECURSIVE ReadVarIntFrom(_, _, _, _)
ReadVarIntFrom(vec, pos, ptr, acc) ==
    IF pos >= Len(vec) THEN [ok |-> FALSE, value |-> 0, pos |-> pos]
    ELSE IF ptr >= VarIntSize THEN [ok |-> FALSE, value |-> 0, pos |-> pos + 1]
    ELSE LET byte == vec[pos + 1]
             v    == VarIntPayload(acc, ptr, byte)
         IN  IF byte < 128 THEN [ok |-> TRUE, value |-> v, pos |-> pos + 1]
             ELSE ReadVarIntFrom(vec, pos + 1, ptr + 1, v)

ReadVarInt(vec, pos) == ReadVarIntFrom(vec, pos, 0, 0)

Min(a, b) == IF a <= b THEN a ELSE b

IsPrefix(a, b) == Len(a) <= Len(b) /\ SubSeq(b, 1, Len(a)) = a

\* A loop that skips a directory key the id-list does not resolve.
RECURSIVE ReadPacketLoop_skip(_, _, _, _, _, _, _, _)
ReadPacketLoop_skip(p, id_list, vec, pos, offs, i, n, added) ==
    IF i >= n THEN [pal |-> p, pos |-> pos, added |-> added, fatal |-> FALSE]
    ELSE LET var_int == ReadVarInt(vec, pos) IN
         IF ~var_int.ok
         THEN [pal |-> p, pos |-> pos, added |-> added, fatal |-> TRUE]
         ELSE IF var_int.value \notin DOMAIN id_list
         THEN ReadPacketLoop_skip(p, id_list, vec, var_int.pos, offs, i + 1, n, added)
         ELSE LET element == <<id_list[var_int.value], BlockstateKeyOf(offs[i + 1])>> IN
              ReadPacketLoop_skip(JavaPalette_add(p, element), id_list, vec,
                                  var_int.pos, offs, i + 1, n, Append(added, element))

\* A loop that takes back what it has added when an unwrap fails.
RECURSIVE ReadPacketLoop_rollback(_, _, _, _, _, _, _, _)
ReadPacketLoop_rollback(p, id_list, vec, pos, offs, i, n, added) ==
    IF i >= n THEN [pal |-> p, pos |-> pos, added |-> added, fatal |-> FALSE]
    ELSE LET var_int == ReadVarInt(vec, pos) IN
         IF ~var_int.ok \/ var_int.value \notin DOMAIN id_list
         THEN [pal |-> [p EXCEPT !.store = SubSeq(@, 1, Len(@) - Len(added))],
               pos |-> pos, added |-> <<>>, fatal |-> TRUE]
         ELSE LET element == <<id_list[var_int.value], BlockstateKeyOf(offs[i + 1])>> IN
              ReadPacketLoop_rollback(JavaPalette_add(p, element), id_list, vec,
                                      var_int.pos, offs, i + 1, n,
                                      Append(added, element))

\* The loop of paletteReadPacket over the first n blockstate offsets, from
\* entry i on: the palette, the cursor, the elements passed to add so far,
\* and whether an unwrap failed.
RECURSIVE ReadPacketLoop(_, _, _, _, _, _, _, _)
ReadPacketLoop(p, id_list, vec, pos, offs, i, n, added) ==
    IF i >= n THEN [pal |-> p, pos |-> pos, added |-> added, fatal |-> FALSE]
    ELSE LET var_int == ReadVarInt(vec, pos) IN
         IF ~var_int.ok \/ var_int.value \notin DOMAIN id_list
         THEN [pal |-> p, pos |-> pos, added |-> added, fatal |-> TRUE]
         ELSE LET element == <<id_list[var_int.value], BlockstateKeyOf(offs[i + 1])>> IN
              ReadPacketLoop(JavaPalette_add(p, element), id_list, vec, var_int.pos,
                             offs, i + 1, n, Append(added, element))

\* .take(packet_len as usize) over blockstate_offsets
TakeCount(packet_len, offs) == Min(AsUsize(packet_len), Len(offs))

\* Java_dev_birb_wgpu_rust_WgpuNative_paletteReadPacket
paletteReadPacket(palette_long, array, current_position, blockstate_offsets) ==
    /\ Running
    /\ UNCHANGED notPalette
    /\ current_position <= Len(array)
    /\ LET call == [Call("decode", palette_long) EXCEPT
                       !.buf = array, !.start = current_position,
                       !.offs = blockstate_offsets]
       IN
       IF ~SlabContains(entries, AsUsize(palette_long))
       THEN Fatal(Call("decode", palette_long))
       ELSE LET h   == AsUsize(palette_long)
                vec == SubSeq(array, current_position + 1, Len(array))
                packet_len == ReadVarInt(vec, 0)
            IN
            IF ~packet_len.ok
            THEN Fatal(call)
            ELSE LET r == ReadPacketLoop(Palette(h), IdListMap(Palette(h).id_list),
                                         vec, packet_len.pos, blockstate_offsets, 0,
                                         TakeCount(packet_len.value, blockstate_offsets),
                                         <<>>)
                 IN
                 /\ TotalEntries + Len(r.added) <= MaxEntries
                 /\ entries' = [entries EXCEPT ![h + 1] = r.pal]
                 /\ first' = [first EXCEPT ![h + 1] = IF r.added = <<>> THEN @ ELSE Tainted]
                 /\ last' = [call EXCEPT !.ret = IF r.fatal THEN 0 ELSE r.pos,
                                         !.fatal = r.fatal]
                 /\ UNCHANGED <<next, destroyed>>

\* palette.store.iter().for_each(..) of debugPalette: the items handed to
\* Wgpu.debug, in store order, up to the call whose result fails to unwrap.
DebugUpcalls(store, failing) ==
    IF failing \in 1 .. Len(store)
    THEN [shown |-> SubSeq(store, 1, failing), fatal |-> TRUE]
    ELSE [shown |-> store, fatal |-> FALSE]

\* Java_dev_birb_wgpu_rust_WgpuNative_debugPalette (its first argument,
\* _packed_integer_array, is not read).
debugPalette(palette, failing) ==
    /\ Running
    /\ UNCHANGED notPalette
    /\ LET call == Call("debug", palette) IN
       IF ~SlabContains(entries, AsUsize(palette))
       THEN Fatal(call)
       ELSE LET r == DebugUpcalls(Palette(AsUsize(palette)).store, failing) IN
            /\ last' = [call EXCEPT !.got = r.shown, !.fatal = r.fatal]
            /\ UNCHANGED <<entries, next, first, destroyed>>

Next ==
    \/ \E idList \in IdListHandles : createPalette(idList)
    \/ \E h \in PaletteHandles : clearPalette(h)
    \/ \E h \in PaletteHandles : destroyPalette(h)
    \/ \E h \in PaletteHandles, object \in Hosts, i \in BlockstateIndices :
          paletteIndex(h, object, i)
    \/ \E h \in PaletteHandles, object \in Hosts, i \in BlockstateIndices :
          add(h, object, BlockstateKeyOf(i))
    \/ \E h \in PaletteHandles : paletteSize(h)
    \/ \E h \in PaletteHandles : copyPalette(h)
    \/ \E h \in PaletteHandles, index \in GetPositions : paletteGet(h, index)
    \/ \E h \in PaletteHandles, array \in PacketBuffers,
          current_position \in StartOffsets, offs \in OffsetArrays :
          paletteReadPacket(h, array, current_position, offs)
    \/ \E h \in PaletteHandles, failing \in UpcallFailures : debugPalette(h, failing)

Spec == Init /\ [][Next]_vars

\* The registry driven by a caller that keeps one palette at a time: it
\* creates a palette only when none is live and never copies.  Every other
\* call is made as in Next, with every handle.
NextSingle ==
    \/ LiveHandles = {} /\ \E idList \in IdListHandles : createPalette(idList)
    \/ \E h \in PaletteHandles : clearPalette(h)
    \/ \E h \in PaletteHandles : destroyPalette(h)
    \/ \E h \in PaletteHandles, object \in Hosts, i \in BlockstateIndices :
          paletteIndex(h, object, i)
    \/ \E h \in PaletteHandles, object \in Hosts, i \in BlockstateIndices :
          add(h, object, BlockstateKeyOf(i))
    \/ \E h \in PaletteHandles : paletteSize(h)
    \/ \E h \in PaletteHandles, index \in GetPositions : paletteGet(h, index)
    \/ \E h \in PaletteHandles, array \in PacketBuffers,
          current_position \in StartOffsets, offs \in OffsetArrays :
          paletteReadPacket(h, array, current_position, offs)
    \/ \E h \in PaletteHandles, failing \in UpcallFailures : debugPalette(h, failing)

SpecSingle == Init /\ [][NextSingle]_vars

\* The same caller, with the record of destroyed handles kept.
SpecStale == InitStale /\ [][NextSingle]_vars


(***************************************************************************)
(* The entry points called from several threads at once.  A call waits     *)
(* for PALETTE_STORAGE's lock, holds it while its body runs, one update    *)
(* of the palette's memory at a time, and gives it back when it returns.   *)
(***************************************************************************)
\* The calls the threads make: every operation, on every slab key.
ThreadCalls ==
    {[Call("create", 0) EXCEPT !.id_list = 1]}
    \cup {[Call("index", h) EXCEPT !.host = "h1", !.key = BlockstateKeyFrom(i)] :
             h \in 0 .. (MaxSlab - 1), i \in BlockstateIndices}
    \cup {[Call("decode", h) EXCEPT !.buf = <<1, 0>>, !.offs = <<196608>>] :
             h \in 0 .. (MaxSlab - 1)}
    \cup {[Call("get", h) EXCEPT !.pos = 1] : h \in 0 .. (MaxSlab - 1)}
    \cup {Call(op, h) : op \in {"clear", "destroy", "size", "copy", "debug"},
                        h \in 0 .. (MaxSlab - 1)}

\* A registry where every entry point takes the lock with read().
LockMode_allshared(op) == "shared"

\* PALETTE_STORAGE.read() in paletteSize, paletteGet and debugPalette,
\* .write() elsewhere.
LockMode(op) == IF op \in {"size", "get", "debug"} THEN "shared" ELSE "exclusive"

\* RwLock: a reader waits for the writer, a writer for every holder.
CanLock(l, mode) ==
    IF mode = "shared" THEN l.writer = NoThread
    ELSE l.writer = NoThread /\ l.readers = {}

LockedBy(l, t, mode) ==
    IF mode = "shared" THEN [l EXCEPT !.readers = @ \cup {t}]
    ELSE [l EXCEPT !.writer = t]

\* The guard is dropped.
Released(l, t) ==
    [writer |-> IF l.writer = t THEN NoThread ELSE l.writer,
     readers |-> l.readers \ {t}]

\* A thread holds its guard from read() or write() to its return, also while
\* debugPalette has left the native code for Wgpu.debug, and from a panic
\* to the abort of the process.
Holding(t) == thr[t].pc \in {"locked", "mid", "upcall", "panicked"}

\* A thread enters an entry point and reaches its read() or write().
Enter(t, call) ==
    /\ Running
    /\ thr[t].pc = "idle"
    /\ thr' = [thr EXCEPT ![t] = [pc |-> "wait", call |-> call, tmp |-> <<>>]]
    /\ UNCHANGED <<entries, next, last, first, destroyed, glVars, cursor, walk, lock>>

\* read() or write() returns the guard.
Acquire(t) ==
    /\ Running
    /\ thr[t].pc = "wait"
    /\ CanLock(lock, LockMode(thr[t].call.op))
    /\ lock' = LockedBy(lock, t, LockMode(thr[t].call.op))
    /\ thr' = [thr EXCEPT ![t].pc = "locked"]
    /\ UNCHANGED <<entries, next, last, first, destroyed, glVars, cursor, walk>>

\* The entry point returns: its guard is dropped.
Return(t) ==
    /\ lock' = Released(lock, t)
    /\ thr' = [thr EXCEPT ![t] = Idle]

\* unwrap() fails in thread t: the panic starts (its message is written),
\* the guard of t still alive.  The other threads keep running until the
\* process aborts.
Panic(t) ==
    /\ thr' = [thr EXCEPT ![t].pc = "panicked"]
    /\ UNCHANGED <<entries, next, last, first, destroyed, glVars, cursor, walk, lock>>

\* The entry points are extern "system" functions called from threads of
\* the JVM, whose frames the panic cannot unwind: no destructor runs, the
\* guard of t is never dropped, and the process aborts with the lock as t
\* held it.  Nothing runs after it.
Abort(t) ==
    /\ Running
    /\ thr[t].pc = "panicked"
    /\ last' = [thr[t].call EXCEPT !.fatal = TRUE]
    /\ UNCHANGED <<entries, next, first, destroyed, glVars, cursor, walk, lock, thr>>

InBody(t, op, pc) ==
    /\ Running
    /\ thr[t].pc = pc
    /\ thr[t].call.op = op

\* The two updates of JavaPalette::index and JavaPalette::add, in the order
\* of the source: indices.insert(key, store.len()), then store.push(element).
IndicesInsert(p, element) ==
    [p EXCEPT !.indices = MapPut(p.indices, element[2], Len(p.store))]
StorePush(p, element) == [p EXCEPT !.store = Append(p.store, element)]

\* The element paletteReadPacket adds for the one entry of the packet of call.
DecodedElement(p, call) ==
    LET packet_len == ReadVarInt(call.buf, 0)
        var_int    == ReadVarInt(call.buf, packet_len.pos)
    IN  <<IdListMap(p.id_list)[var_int.value], BlockstateKeyOf(call.offs[1])>>

\* createPalette: Slab::insert under the write guard.
lockedCreate(t) ==
    /\ InBody(t, "create", "locked")
    /\ LET ins == SlabInsert(entries, next,
                             JavaPalette_new(AsUsize(thr[t].call.id_list)))
       IN  /\ Len(ins.entries) <= MaxSlab
           /\ entries' = ins.entries
           /\ next' = ins.next
    /\ Return(t)
    /\ UNCHANGED <<last, first, destroyed, glVars, cursor, walk>>

\* paletteIndex and paletteReadPacket, up to indices.insert: the handle is
\* looked up, index returns at once when the key is present.
lockedInsert(t) ==
    /\ Running
    /\ thr[t].pc = "locked"
    /\ thr[t].call.op \in {"index", "decode"}
    /\ LET c == thr[t].call IN
       IF ~SlabContains(entries, c.h)
       THEN Panic(t)
       ELSE IF c.op = "index" /\ c.key \in DOMAIN Palette(c.h).indices
       THEN Return(t) /\ UNCHANGED <<entries, next, last, first, destroyed, glVars, cursor, walk>>
       ELSE LET element == IF c.op = "index" THEN <<c.host, c.key>>
                           ELSE DecodedElement(Palette(c.h), c)
            IN  /\ TotalEntries + 1 <= MaxEntries
                /\ entries' = [entries EXCEPT ![c.h + 1] = IndicesInsert(@, element)]
                /\ thr' = [thr EXCEPT ![t].pc = "mid", ![t].tmp = <<element>>]
                /\ UNCHANGED <<next, last, first, destroyed, glVars, cursor, walk, lock>>

\* paletteIndex and paletteReadPacket: store.push, then the return.
lockedPush(t) ==
    /\ Running
    /\ thr[t].pc = "mid"
    /\ thr[t].call.op \in {"index", "decode"}
    /\ SlabContains(entries, thr[t].call.h)
    /\ entries' = [entries EXCEPT ![thr[t].call.h + 1] = StorePush(@, thr[t].tmp[1])]
    /\ Return(t)
    /\ UNCHANGED <<next, last, first, destroyed, glVars, cursor, walk>>

\* clearPalette, up to store.clear().
lockedClear(t) ==
    /\ InBody(t, "clear", "locked")
    /\ IF ~SlabContains(entries, thr[t].call.h)
       THEN Panic(t)
       ELSE /\ entries' = [entries EXCEPT ![thr[t].call.h + 1].store = <<>>]
            /\ thr' = [thr EXCEPT ![t].pc = "mid"]
            /\ UNCHANGED <<next, last, first, destroyed, glVars, cursor, walk, lock>>

\* clearPalette: indices.clear(), then the return.
lockedClearIndices(t) ==
    /\ InBody(t, "clear", "mid")
    /\ SlabContains(entries, thr[t].call.h)
    /\ entries' = [entries EXCEPT ![thr[t].call.h + 1].indices = EmptyMap]
    /\ Return(t)
    /\ UNCHANGED <<next, last, first, destroyed, glVars, cursor, walk>>

\* destroyPalette: Slab::remove under the write guard.
lockedDestroy(t) ==
    /\ InBody(t, "destroy", "locked")
    /\ IF ~SlabContains(entries, thr[t].call.h)
       THEN Panic(t)
       ELSE LET rem == SlabRemove(entries, next, thr[t].call.h) IN
            /\ entries' = rem.entries
            /\ next' = rem.next
            /\ Return(t)
            /\ UNCHANGED <<last, first, destroyed, glVars, cursor, walk>>

\* copyPalette, up to the clone of store (the derived Clone copies the
\* fields in the order of their declaration).
lockedClone(t) ==
    /\ InBody(t, "copy", "locked")
    /\ LET h == thr[t].call.h IN
       IF ~SlabContains(entries, h)
       THEN Panic(t)
       ELSE /\ Len(SlabInsert(entries, next, Palette(h)).entries) <= MaxSlab
            /\ TotalEntries + Len(Palette(h).store) <= MaxEntries
            /\ thr' = [thr EXCEPT ![t].pc = "mid", ![t].tmp = Palette(h).store]
            /\ UNCHANGED <<entries, next, last, first, destroyed, glVars, cursor, walk, lock>>

\* copyPalette: the clone of indices and id_list, Slab::insert, the return.
lockedCloneInsert(t) ==
    /\ InBody(t, "copy", "mid")
    /\ LET h == thr[t].call.h IN
       /\ SlabContains(entries, h)
       /\ LET new_palette == [occ |-> TRUE, store |-> thr[t].tmp,
                              indices |-> Palette(h).indices,
                              id_list |-> Palette(h).id_list]
              ins == SlabInsert(entries, next, new_palette)
          IN  /\ Len(ins.entries) <= MaxSlab
              /\ entries' = ins.entries
              /\ next' = ins.next
    /\ Return(t)
    /\ UNCHANGED <<last, first, destroyed, glVars, cursor, walk>>

\* paletteSize and paletteGet under the read guard.
lockedRead(t) ==
    /\ Running
    /\ thr[t].pc = "locked"
    /\ thr[t].call.op \in {"size", "get"}
    /\ LET c == thr[t].call IN
       IF ~SlabContains(entries, c.h)
       THEN Panic(t)
       ELSE IF c.op = "get" /\ JavaPalette_get(Palette(c.h), AsUsize(c.pos)) = <<>>
       THEN Panic(t)
       ELSE Return(t) /\ UNCHANGED <<entries, next, last, first, destroyed, glVars, cursor, walk>>

\* debugPalette under the read guard, up to its first call of Wgpu.debug:
\* the handle is looked up; tmp holds the items still to be handed over.
lockedDebug(t) ==
    /\ InBody(t, "debug", "locked")
    /\ LET c == thr[t].call IN
       IF ~SlabContains(entries, c.h)
       THEN Panic(t)
       ELSE IF Palette(c.h).store = <<>>
       THEN Return(t) /\ UNCHANGED <<entries, next, last, first, destroyed, glVars, cursor, walk>>
       ELSE /\ thr' = [thr EXCEPT ![t].pc = "upcall", ![t].tmp = Palette(c.h).store]
            /\ UNCHANGED <<entries, next, last, first, destroyed, glVars, cursor, walk, lock>>

\* debugPalette: Wgpu.debug comes back to the native code, the read guard
\* still held; an error fails the unwrap, the last item ends the call.
debugUpcall(t, ok) ==
    /\ InBody(t, "debug", "upcall")
    /\ IF ~ok
       THEN Panic(t)
       ELSE IF Len(thr[t].tmp) = 1
       THEN Return(t) /\ UNCHANGED <<entries, next, last, first, destroyed, glVars, cursor, walk>>
       ELSE /\ thr' = [thr EXCEPT ![t].tmp = Tail(@)]
            /\ UNCHANGED <<entries, next, last, first, destroyed, glVars, cursor, walk, lock>>

NextLock ==
    \E t \in Threads :
        \/ \E call \in ThreadCalls : Enter(t, call)
        \/ Acquire(t)
        \/ lockedCreate(t)
        \/ lockedInsert(t)
        \/ lockedPush(t)
        \/ lockedClear(t)
        \/ lockedClearIndices(t)
        \/ lockedDestroy(t)
        \/ lockedClone(t)
        \/ lockedCloneInsert(t)
        \/ lockedRead(t)
        \/ lockedDebug(t)
        \/ \E ok \in BOOLEAN : debugUpcall(t, ok)
        \/ Abort(t)

\* The registry under concurrent callers.  (first and destroyed record what
\* a single caller has seen and are not kept here.)
SpecLock == Init /\ [][NextLock]_vars

(***************************************************************************)
(* The command-buffer engine (rust/wgpu-mc-jni/src/gl/pipeline.rs).        *)
(***************************************************************************)
\* build_wgpu_pipelines runs at most MaxBuilds times, and at most MaxPasses
\* render passes are begun.
MaxBuilds == 2
MaxPasses == 2

\* The frames the host records, entry by entry.  A colour is written
\* with one decimal digit for each of r, g, b (123 is r = 1, g = 2, b = 3).
Frames ==
    { << GLCommand("UsePipeline", 0), GLCommand("SetVertexBuffer", 7),
         GLCommand("Draw", 3) >>,
      << GLCommand("SetMatrix", 4), GLCommand("AttachTexture", 1),
         GLCommand("UsePipeline", 1), GLCommand("SetMatrix", 5),
         GLCommand("SetIndexBuffer", 8), GLCommand("DrawIndexed", 6) >>,
      << GLCommand("Draw", 3), GLCommand("UsePipeline", 2),
         GLCommand("ClearColor", 123), GLCommand("Draw", 3) >>,
      << GLCommand("UsePipeline", 0), GLCommand("UsePipeline", 3),
         GLCommand("Draw", 3) >> }

FrameCommands == UNION {{f[i] : i \in 1 .. Len(f)} : f \in Frames}

\* A call on the render pass: the entry of the sequence it was issued for,
\* the function, the slot, the resource bound and the count or payload;
\* for a buffer the model looks into, its contents; for a draw, the number
\* of instances.
BackendCall(fn, slot, res, n) ==
    [entry |-> 0, fn |-> fn, slot |-> slot, res |-> res, n |-> n,
     contents |-> <<>>, instances |-> 0]

\* The keys of render_pipelines that build_wgpu_pipelines provides.
Catalog == {"wgpu_mc_ogl:pipelines/pos_col_float3", "pos_tex", "pos_col_uint",
            "clearcolor"}

\* A UsePipeline arm where an unmatched index does nothing.
UsePipeline_noop(pipeline) ==
    IF pipeline = 0 THEN [fatal |-> FALSE, calls |-> <<BackendCall("set_pipeline", 0, "pos_col_uint", 0)>>]
    ELSE IF pipeline = 1 THEN [fatal |-> FALSE, calls |-> <<BackendCall("set_pipeline", 0, "pos_tex", 0)>>]
    ELSE IF pipeline = 2
    THEN [fatal |-> FALSE,
          calls |-> <<BackendCall("set_pipeline", 0, "wgpu_mc_ogl:pipelines/pos_col_float3", 0)>>]
    ELSE [fatal |-> FALSE, calls |-> <<>>]

\* GLCommand::UsePipeline: the match on the index, get(name).unwrap() on the
\* catalog, set_pipeline; unimplemented!() for any other index.
UsePipeline(pipeline) ==
    LET name == IF pipeline = 0 THEN "pos_col_uint"
                ELSE IF pipeline = 1 THEN "pos_tex"
                ELSE IF pipeline = 2 THEN "wgpu_mc_ogl:pipelines/pos_col_float3"
                ELSE "unimplemented"
    IN  IF name \in Catalog
        THEN [fatal |-> FALSE, calls |-> <<BackendCall("set_pipeline", 0, name, 0)>>]
        ELSE [fatal |-> TRUE, calls |-> <<>>]

\* A GLCommand::AttachTexture that binds at slot 0.
AttachTexture_slot0(texture, alloc) ==
    IF texture \notin DOMAIN alloc \/ alloc[texture] = "absent"
    THEN [fatal |-> FALSE,
          calls |-> <<BackendCall("set_bind_group", 0, "black_texture",
                                  black_texture[1])>>]
    ELSE IF alloc[texture] = "bound"
    THEN [fatal |-> FALSE,
          calls |-> <<BackendCall("set_bind_group", 0, "texture", texture)>>]
    ELSE [fatal |-> TRUE, calls |-> <<>>]

\* GLCommand::AttachTexture: the directory decides between black_texture
\* (the texture in the OnceCell, whose unwrap() fails on an empty cell) and
\* the unit's bindable_texture, whose unwrap() fails on a unit that holds
\* none.
AttachTexture(texture, alloc) ==
    IF texture \notin DOMAIN alloc \/ alloc[texture] = "absent"
    THEN IF black_texture = <<>> THEN [fatal |-> TRUE, calls |-> <<>>]
         ELSE [fatal |-> FALSE,
               calls |-> <<BackendCall("set_bind_group", 1, "black_texture",
                                       black_texture[1])>>]
    ELSE IF alloc[texture] = "bound"
    THEN [fatal |-> FALSE,
          calls |-> <<BackendCall("set_bind_group", 1, "texture", texture)>>]
    ELSE [fatal |-> TRUE, calls |-> <<>>]

\* The r, g, b of a colour.
ColourOf(colour) == <<colour \div 100, (colour \div 10) % 10, colour % 10>>

\* The vertex data of GLCommand::ClearColor: six vertices of x, y, r, g, b.
ClearQuad(r, g, b) ==
    << 0 - 1, 0 - 1, r, g, b,
       0 - 1, 1, r, g, b,
       1, 1, r, g, b,
       0 - 1, 0 - 1, r, g, b,
       1, 1, r, g, b,
       1, 0 - 1, r, g, b >>

\* A GLCommand::ClearColor that draws with the pipeline bound before it.
ClearColor_nopipeline(colour) ==
    LET rgb == ColourOf(colour) IN
    [fatal |-> FALSE,
     calls |-> << [BackendCall("set_vertex_buffer", 0, "VERTEX", colour)
                     EXCEPT !.contents = ClearQuad(rgb[1], rgb[2], rgb[3])],
                  [BackendCall("draw", 0, "", 6) EXCEPT !.instances = 1] >>]

\* GLCommand::ClearColor: the quad's buffer is made, then set_pipeline with
\* the catalog's "clearcolor", set_vertex_buffer(0, quad), draw(0..6, 0..1).
ClearColor(colour) ==
    LET rgb == ColourOf(colour) IN
    IF "clearcolor" \notin Catalog THEN [fatal |-> TRUE, calls |-> <<>>]
    ELSE [fatal |-> FALSE,
          calls |-> << BackendCall("set_pipeline", 0, "clearcolor", 0),
                       [BackendCall("set_vertex_buffer", 0, "VERTEX", colour)
                          EXCEPT !.contents = ClearQuad(rgb[1], rgb[2], rgb[3])],
                       [BackendCall("draw", 0, "", 6) EXCEPT !.instances = 1] >>]

\* One arm of the match in render: whether it panics, and the calls it
\* makes on the render pass, in order.
Replay(command, alloc) ==
    CASE command.cmd = "UsePipeline" -> UsePipeline(command.arg)
      [] command.cmd = "SetVertexBuffer" ->
            [fatal |-> FALSE,
             calls |-> <<BackendCall("set_vertex_buffer", 0, "VERTEX", command.arg)>>]
      [] command.cmd = "SetIndexBuffer" ->
            [fatal |-> FALSE,
             calls |-> <<BackendCall("set_index_buffer", 0, "INDEX", command.arg)>>]
      [] command.cmd = "Draw" ->
            [fatal |-> FALSE,
             calls |-> <<[BackendCall("draw", 0, "", command.arg)
                            EXCEPT !.instances = 1]>>]
      [] command.cmd = "DrawIndexed" ->
            [fatal |-> FALSE,
             calls |-> <<[BackendCall("draw_indexed", 0, "", command.arg)
                            EXCEPT !.instances = 1]>>]
      [] command.cmd = "ClearColor" -> ClearColor(command.arg)
      [] command.cmd = "AttachTexture" -> AttachTexture(command.arg, alloc)
      [] command.cmd = "SetMatrix" ->
            [fatal |-> FALSE,
             calls |-> <<BackendCall("set_bind_group", 0, "matrix4", command.arg)>>]
      [] OTHER -> [fatal |-> FALSE, calls |-> <<>>]

\* The calls of one entry, marked with the entry's position.
IssuedFor(i, calls) == [k \in 1 .. Len(calls) |-> [calls[k] EXCEPT !.entry = i]]

\* Arms where SetVertexBuffer binds its buffer without arena.alloc.
ArenaAllocs_nobuffer(command) ==
    CASE command.cmd = "UsePipeline" -> <<"pipeline">>
      [] command.cmd = "SetIndexBuffer" -> <<"INDEX">>
      [] command.cmd = "ClearColor" -> <<"VERTEX", "pipeline">>
      [] command.cmd = "AttachTexture" -> <<"texture">>
      [] command.cmd = "SetMatrix" -> <<"UNIFORM", "bind_group">>
      [] OTHER -> <<>>

\* The objects one arm places in the arena with arena.alloc, in order: the
\* buffers and the bind group it creates on the device, and its clones of
\* the shared pipeline and texture handles.
ArenaAllocs(command) ==
    CASE command.cmd = "UsePipeline" -> <<"pipeline">>
      [] command.cmd = "SetVertexBuffer" -> <<"VERTEX">>
      [] command.cmd = "SetIndexBuffer" -> <<"INDEX">>
      [] command.cmd = "ClearColor" -> <<"VERTEX", "pipeline">>
      [] command.cmd = "AttachTexture" -> <<"texture">>
      [] command.cmd = "SetMatrix" -> <<"UNIFORM", "bind_group">>
      [] OTHER -> <<>>

\* For each call of one arm, which of the arm's arena objects it binds
\* (0: none).
Bound(command) ==
    CASE command.cmd = "ClearColor" -> <<2, 1, 0>>
      [] command.cmd = "SetMatrix" -> <<2>>
      [] command.cmd \in {"Draw", "DrawIndexed"} -> <<0>>
      [] OTHER -> <<1>>

\* arena.alloc(..): the k-th object an arm places in the arena of render
\* pass frame is a new one, after those the arena holds.
Fresh(frame, arena, k) == <<frame, Len(arena) + k>>

\* The arena after an arm has placed its objects for entry i.
Allocated(frame, arena, i, kinds) ==
    arena \o [k \in 1 .. Len(kinds) |->
                [id |-> Fresh(frame, arena, k), kind |-> kinds[k], entry |-> i]]

\* The objects the n calls of an arm bind.
BoundObjects(frame, arena, command, n) ==
    [k \in 1 .. n |->
        IF k > Len(Bound(command)) \/ Bound(command)[k] = 0 THEN NoObject
        ELSE Fresh(frame, arena, Bound(command)[k])]

\* What the command-buffer engine leaves alone.
notGl == <<entries, next, first, destroyed, lock, thr, cursor, walk>>

\* The recorder appends one entry to the sequence it is building.
Record(command) ==
    /\ Running
    /\ \E f \in Frames : IsPrefix(Append(recording, command), f)
    /\ recording' = Append(recording, command)
    /\ UNCHANGED <<commands, gl_alloc, pass, prev, black_texture, device, last, notGl>>

\* The frame boundary: the finished sequence is published in one atomic
\* store and a fresh, empty one is begun.
Publish ==
    /\ Running
    /\ recording \in Frames
    /\ commands' = recording
    /\ recording' = <<>>
    /\ prev' = NoPrev
    /\ UNCHANGED <<gl_alloc, pass, black_texture, device, last, notGl>>

\* The host changes what the directory holds for a texture unit; render
\* holds the directory's read guard from its start to its end.
SetTexture(texture, state) ==
    /\ Running
    /\ ~pass.active
    /\ gl_alloc[texture] # state
    /\ gl_alloc' = [gl_alloc EXCEPT ![texture] = state]
    /\ UNCHANGED <<commands, recording, pass, prev, black_texture, device, last, notGl>>

\* A load that takes the published sequence away.
AfterLoad_taken(cmds) == <<>>

\* self.commands after self.commands.load(): as before.
AfterLoad(cmds) == cmds

\* A replay that looks at self.commands anew for every entry.
Loaded_reload(snapshot, cmds) == cmds

\* let commands = self.commands.load(): the sequence render walks is the
\* one it loaded when it started.
Loaded(snapshot, cmds) == snapshot

\* An iteration from the last entry to the first.
CommandAt_reversed(seq, pos) == seq[Len(seq) - pos]

\* commands.iter(): the entry the iteration yields after pos entries.
CommandAt(seq, pos) == seq[pos + 1]

\* render, up to self.commands.load().  The renderer calls it once the
\* pipelines are built, with the arena of the render pass it has begun.
RenderBegin ==
    /\ Running
    /\ ~pass.active
    /\ black_texture # <<>>
    /\ device.passes < MaxPasses
    /\ device' = [device EXCEPT !.passes = @ + 1]
    /\ pass' = [NoPass EXCEPT !.active = TRUE, !.snapshot = commands,
                              !.atStart = commands,
                              !.frame = device.passes + 1]
    /\ commands' = AfterLoad(commands)
    /\ UNCHANGED <<recording, gl_alloc, prev, black_texture, last, notGl>>

\* render: one turn of commands.iter().for_each.
RenderStep ==
    /\ Running
    /\ pass.active
    /\ pass.pos < Len(Loaded(pass.snapshot, commands))
    /\ LET command == CommandAt(Loaded(pass.snapshot, commands), pass.pos)
           r       == Replay(command, gl_alloc)
       IN  IF r.fatal
           THEN /\ last' = [Call("render", 0) EXCEPT !.pos = pass.pos, !.fatal = TRUE]
                /\ UNCHANGED pass
           ELSE /\ pass' = [pass EXCEPT
                      !.pos = @ + 1,
                      !.replayed = Append(@, command),
                      !.calls = @ \o IssuedFor(pass.pos + 1, r.calls),
                      !.arena = Allocated(pass.frame, @, pass.pos + 1,
                                          ArenaAllocs(command)),
                      !.binds = @ \o BoundObjects(pass.frame, pass.arena, command,
                                                  Len(r.calls))]
                /\ UNCHANGED last
    /\ UNCHANGED <<commands, recording, gl_alloc, prev, black_texture, device, notGl>>

\* render returns: the sequence is walked to its end.
RenderEnd ==
    /\ Running
    /\ pass.active
    /\ pass.pos >= Len(Loaded(pass.snapshot, commands))
    /\ prev' = [valid |-> TRUE, walked |-> pass.replayed, atStart |-> pass.atStart,
                calls |-> pass.calls, tex |-> gl_alloc, arena |-> pass.arena]
    /\ pass' = NoPass
    /\ UNCHANGED <<commands, recording, gl_alloc, black_texture, device, last, notGl>>

\* A OnceCell::set that puts the new value over the old one.
OnceCellSet_replace(cell, value) == <<value>>

\* OnceCell::set: the value is stored in an empty cell; a cell that is set
\* keeps what it has (set returns Err, which build_wgpu_pipelines drops).
OnceCellSet(cell, value) == IF cell = <<>> THEN <<value>> ELSE cell

\* build_wgpu_pipelines: a 1x1 black texture is made on the device and
\* offered to self.black_texture; the catalog is returned.
build_wgpu_pipelines ==
    /\ Running
    /\ device.textures < MaxBuilds
    /\ device' = [device EXCEPT !.textures = @ + 1]
    /\ black_texture' = OnceCellSet(black_texture, device.textures + 1)
    /\ UNCHANGED <<commands, recording, gl_alloc, pass, prev, last, notGl>>

NextReplay ==
    \/ build_wgpu_pipelines
    \/ \E command \in FrameCommands : Record(command)
    \/ Publish
    \/ \E texture \in TextureIds, state \in TexStates : SetTexture(texture, state)
    \/ RenderBegin
    \/ RenderStep
    \/ RenderEnd

\* The recorder, the host's texture calls and the render thread, interleaved.
SpecReplay == Init /\ [][NextReplay]_vars

(***************************************************************************)
(* read_var_int on its own: a cursor over a byte slice, read until the     *)
(* slice ends or a read fails.                                             *)
(***************************************************************************)
\* The slices have at most this many bytes.
MaxVarIntBytes == 6

\* Bytes: a last byte (0x00, 0x0f) and a continuation byte (0x80, 0xff).
VarIntBytes == {0, 15, 128, 255}

RECURSIVE ByteSlices(_)
ByteSlices(n) ==
    IF n = 0 THEN {<<>>}
    ELSE LET shorter == ByteSlices(n - 1) IN
         shorter \cup {Append(v, b) : v \in {w \in shorter : Len(w) = n - 1},
                                      b \in VarIntBytes}

notCursor == <<entries, next, last, first, destroyed, lock, thr, glVars, walk>>

\* Cursor::new(vec)
CursorNew(vec) ==
    /\ ~cursor.open
    /\ cursor' = [NoCursor EXCEPT !.open = TRUE, !.vec = vec]
    /\ UNCHANGED notCursor

\* cursor.read_var_int().unwrap().into(): the value, the cursor moved past
\* the bytes read; a panic when the read fails.
read_var_int ==
    /\ cursor.open
    /\ ~cursor.fatal
    /\ cursor.pos < Len(cursor.vec)
    /\ LET r == ReadVarInt(cursor.vec, cursor.pos) IN
       cursor' = [cursor EXCEPT !.from = cursor.pos, !.pos = r.pos,
                                !.value = r.value, !.reads = @ + 1,
                                !.fatal = ~r.ok]
    /\ UNCHANGED notCursor

NextVarInt ==
    \/ ~cursor.open /\ \E vec \in ByteSlices(MaxVarIntBytes) : CursorNew(vec)
    \/ read_var_int

SpecVarInt == Init /\ [][NextVarInt]_vars

(***************************************************************************)
(* Direction (rust/wgpu-mc/src/mc/direction.rs), applied by a walker that  *)
(* steps from block to neighbouring block and turns round.                 *)
(***************************************************************************)
\* The walker takes at most this many steps.
MaxSteps == 3

\* enum Direction
Direction == {"West", "East", "Down", "Up", "North", "South"}

\* `*self as usize`: the discriminant of the variant.
Discriminant(d) ==
    CASE d = "West" -> 0 [] d = "East" -> 1 [] d = "Down" -> 2
      [] d = "Up" -> 3 [] d = "North" -> 4 [] d = "South" -> 5

\* static VECTOR: [IVec3; 6]
VECTOR ==
    << <<0 - 1, 0, 0>>, <<1, 0, 0>>, <<0, 0 - 1, 0>>, <<0, 1, 0>>,
       <<0, 0, 0 - 1>>, <<0, 0, 1>> >>

\* Direction::to_vec
to_vec(d) == VECTOR[Discriminant(d) + 1]

\* An opposite that goes on to the next variant.
opposite_cyclic(d) ==
    CASE d = "West" -> "East" [] d = "East" -> "Down"
      [] d = "Down" -> "Up" [] d = "Up" -> "North"
      [] d = "North" -> "South" [] d = "South" -> "West"

\* Direction::opposite
opposite(d) ==
    CASE d = "West" -> "East" [] d = "East" -> "West"
      [] d = "Down" -> "Up" [] d = "Up" -> "Down"
      [] d = "North" -> "South" [] d = "South" -> "North"

\* IVec3 addition.
IVec3Add(a, b) == <<a[1] + b[1], a[2] + b[2], a[3] + b[3]>>

notWalk == <<entries, next, last, first, destroyed, lock, thr, glVars, cursor>>

\* One step along d: the walker adds to_vec(d) to its position.
StepAlong(d, turned) ==
    /\ Len(walk.steps) < MaxSteps
    /\ walk' = [steps |-> Append(walk.steps,
                                 [d |-> d, vec |-> to_vec(d), turned |-> turned,
                                  from |-> walk.at]),
                at |-> IVec3Add(walk.at, to_vec(d))]
    /\ UNCHANGED notWalk

\* The walker steps along a direction of its choice.
Move(d) == StepAlong(d, FALSE)

\* The walker turns round: it steps along the opposite of its last step.
TurnRound ==
    /\ walk.steps # <<>>
    /\ StepAlong(opposite(walk.steps[Len(walk.steps)].d), TRUE)

NextDirection ==
    \/ \E d \in Direction : Move(d)
    \/ TurnRound

SpecDirection == Init /\ [][NextDirection]_vars

(***************************************************************************)
(* Properties.                                                             *)
(***************************************************************************)
StoreKeys(p) == {p.store[i][2] : i \in 1 .. Len(p.store)}

\* The last position of store that holds key (key is in the store).
LastPosition(store, key) ==
    CHOOSE q \in 0 .. (Len(store) - 1) :
        /\ store[q + 1][2] = key
        /\ \A j \in 0 .. (Len(store) - 1) : store[j + 1][2] = key => j <= q

\* The step just taken was a call of op that returned (op is the name in last).
Returned(op) == last'.op = op /\ ~last'.fatal

\* C1: on a palette filled by index calls alone since it was empty, size is
\* the number of distinct keys passed so far, and an index call returns the
\* position the first index call with that key returned.
C1_IndexDeduplicates ==
    \A h \in LiveHandles :
        ~first[h + 1].tainted =>
            /\ JavaPalette_size(Palette(h)) = Cardinality(DOMAIN first[h + 1].map)
            /\ (last.op = "index" /\ ~last.fatal /\ last.h = h) =>
                   last.ret = first[h + 1].map[last.key]

\* C1 witness: two distinct keys were indexed, then the first key again,
\* which returned position 0.
C1_Witness ==
    \E h \in LiveHandles :
        /\ ~first[h + 1].tainted
        /\ Cardinality(DOMAIN first[h + 1].map) = 2
        /\ last.op = "index" /\ ~last.fatal /\ last.h = h
        /\ last.key = Palette(h).store[1][2]
        /\ last.ret = 0

\* C2: an index call with a key already present changes neither the entry
\* sequence nor the reverse index (nor any other palette), and returns the
\* recorded position; the entry there keeps the host stored first.
C2_IndexPresentKeyKeepsStorage ==
    [][(Returned("index") /\ last'.key \in DOMAIN Palette(last'.h).indices) =>
          /\ entries' = entries
          /\ next' = next
          /\ last'.ret = Palette(last'.h).indices[last'.key]]_vars

\* C2 witness: index(h1, {3,0}) then index(h2, {3,0}): size 1, entry 0 is
\* (h1, {3,0}).
C2_Witness ==
    \E h \in LiveHandles :
        /\ last.op = "index" /\ ~last.fatal /\ last.h = h
        /\ last.host = "h2" /\ last.key = <<3, 0>> /\ last.ret = 0
        /\ Palette(h).store = << <<"h1", <<3, 0>>>> >>

\* C3, as an invariant: the reverse index maps each key to the last position
\* of the store that holds it.
LastWriteWins ==
    \A h \in LiveHandles :
        LET p == Palette(h) IN
        /\ DOMAIN p.indices = StoreKeys(p)
        /\ \A k \in DOMAIN p.indices : p.indices[k] = LastPosition(p.store, k)

\* C3, as a step: add appends its element at position size, points the key
\* at it and leaves every other entry and mapping alone.
AddAppends ==
    Returned("add") =>
        LET p == Palette(last'.h)
            q == entries'[last'.h + 1]
        IN  /\ Len(q.store) = Len(p.store) + 1
            /\ SubSeq(q.store, 1, Len(p.store)) = p.store
            /\ q.store[Len(q.store)] = <<last'.host, last'.key>>
            /\ DOMAIN q.indices = (DOMAIN p.indices) \cup {last'.key}
            /\ q.indices[last'.key] = Len(p.store)
            /\ \A k \in (DOMAIN p.indices) \ {last'.key} : q.indices[k] = p.indices[k]

\* C3, as a step: an index call with a key that was added returns the
\* position of the latest add of that key.
IndexAfterAddReturnsLatest ==
    (Returned("index") /\ last'.key \in StoreKeys(Palette(last'.h))) =>
        last'.ret = LastPosition(Palette(last'.h).store, last'.key)

\* C3: every add grows the palette by exactly its element, at the position
\* equal to the size before it; the reverse index maps each key to its most
\* recent position; a later index call returns that position.
C3_AddAppendsLastWriteWins ==
    []LastWriteWins /\ [][AddAppends /\ IndexAfterAddReturnsLatest]_vars

\* C3 witness: the same key was added twice and then indexed: both entries
\* are kept and index returned position 1.
C3_Witness ==
    \E h \in LiveHandles :
        /\ last.op = "index" /\ ~last.fatal /\ last.h = h /\ last.ret = 1
        /\ Len(Palette(h).store) = 2
        /\ Palette(h).store[1][2] = last.key
        /\ Palette(h).store[2][2] = last.key

\* C4 (as amended): in every live palette each key of the reverse index maps
\* to a valid position whose entry has that key, and every stored entry's
\* key is in the reverse index.
C4_IndexAndStoreAgree ==
    \A h \in LiveHandles :
        LET p == Palette(h) IN
        /\ \A k \in DOMAIN p.indices :
              /\ p.indices[k] < JavaPalette_size(p)
              /\ p.store[p.indices[k] + 1][2] = k
        /\ \A i \in 1 .. Len(p.store) : p.store[i][2] \in DOMAIN p.indices

\* C4 as stated, read strictly: moreover every stored position is the one
\* recorded for its key.
C4_EveryPositionRecorded ==
    /\ C4_IndexAndStoreAgree
    /\ \A h \in LiveHandles :
          LET p == Palette(h) IN
          \A i \in 1 .. Len(p.store) : p.indices[p.store[i][2]] = i - 1

\* C4 witness: a palette holds the same key at positions 0 and 1 and its
\* reverse index records position 1.
C4_Witness ==
    \E h \in LiveHandles :
        LET p == Palette(h) IN
        /\ Len(p.store) = 2
        /\ p.store[1][2] = p.store[2][2]
        /\ p.indices[p.store[1][2]] = 1

\* C5, the copy itself: the handle returned is new and differs from the
\* source; the new palette has the source's entries, reverse index and
\* id-list; the source and every other palette are as before.
CopyIsSnapshot ==
    Returned("copy") =>
        LET src == last'.h
            new == last'.ret
        IN  /\ new # src
            /\ new \notin LiveHandles
            /\ SlabContains(entries', new)
            /\ JavaPalette_size(entries'[new + 1]) = JavaPalette_size(Palette(src))
            /\ entries'[new + 1].store = Palette(src).store
            /\ entries'[new + 1].indices = Palette(src).indices
            /\ entries'[new + 1].id_list = Palette(src).id_list
            /\ \A b \in LiveHandles : entries'[b + 1] = entries[b + 1]

\* C5, afterwards: index, add, decode_packet, clear or destroy on one handle
\* (fatal or not) leaves every other live palette, the copy or the source
\* among them, unchanged.
MutationStaysInItsPalette ==
    last'.op \in {"index", "add", "decode", "clear", "destroy"} =>
        \A b \in LiveHandles \ {last'.h} :
            /\ SlabContains(entries', b)
            /\ entries'[b + 1] = entries[b + 1]

\* C5: copy returns a new handle on an equal palette, and the two are
\* independent afterwards.
C5_CopyIsIndependentSnapshot ==
    [][CopyIsSnapshot /\ MutationStaysInItsPalette]_vars

\* C5 witness: a non-empty palette was just copied to another handle.
C5_Witness ==
    /\ last.op = "copy" /\ ~last.fatal
    /\ {last.h, last.ret} \subseteq LiveHandles
    /\ last.h # last.ret
    /\ Len(Palette(last.h).store) > 0
    /\ Palette(last.ret) = Palette(last.h)

\* C6: clear empties the store and the reverse index of its palette, which
\* stays live with its id-list; a size call right after it returns 0 and an
\* index call right after it returns position 0.
C6_ClearEmptiesInPlace ==
    [][/\ Returned("clear") =>
            /\ SlabContains(entries', last'.h)
            /\ entries'[last'.h + 1].store = <<>>
            /\ DOMAIN entries'[last'.h + 1].indices = {}
            /\ entries'[last'.h + 1].id_list = Palette(last'.h).id_list
       /\ (last.op = "clear" /\ ~last.fatal /\ last'.h = last.h) =>
            /\ Returned("size") => last'.ret = 0
            /\ Returned("index") =>
                  /\ last'.ret = 0
                  /\ entries'[last'.h + 1].store = << <<last'.host, last'.key>> >>]_vars

\* C6 witness: a palette bound to id-list 2 was just cleared: it is live,
\* empty and still bound to id-list 2.
C6_Witness ==
    /\ last.op = "clear" /\ ~last.fatal
    /\ last.h \in LiveHandles
    /\ Palette(last.h).store = <<>>
    /\ DOMAIN Palette(last.h).indices = {}
    /\ Palette(last.h).id_list = 2

\* C7, the result: on a live palette get is fatal exactly when the palette is
\* empty; otherwise it returns the entry at the position when the position
\* is within the size, and the entry at position 0 for any other position.
GetFallsBackToZero ==
    (last.op = "get" /\ last.h \in LiveHandles) =>
        LET p == Palette(last.h) IN
        /\ last.fatal <=> JavaPalette_size(p) = 0
        /\ ~last.fatal =>
              /\ last.got = << p.store[IF 0 <= last.pos /\ last.pos < JavaPalette_size(p)
                                       THEN last.pos + 1 ELSE 1] >>
              /\ last.host = last.got[1][1]

\* C7: get returns the entry at the position, or the entry at position 0
\* when the position is out of range; it is fatal on an empty palette; it
\* changes no palette.
C7_GetFallback ==
    /\ []GetFallsBackToZero
    /\ [][last'.op = "get" => (entries' = entries /\ next' = next)]_vars

\* C7 witness: get(-1) on a palette of two different entries returned entry 0.
C7_Witness ==
    /\ last.op = "get" /\ ~last.fatal /\ last.pos = 0 - 1
    /\ last.h \in LiveHandles
    /\ Len(Palette(last.h).store) = 2
    /\ Palette(last.h).store[1] # Palette(last.h).store[2]
    /\ last.got = << Palette(last.h).store[1] >>

(***************************************************************************)
(* The wire format as the sender writes it.                                *)
(***************************************************************************)
\* A non-negative value as a little-endian base-128 varint.
RECURSIVE WriteVarInt(_)
WriteVarInt(v) ==
    IF v < 128 THEN <<v>> ELSE <<128 + (v % 128)>> \o WriteVarInt(v \div 128)

RECURSIVE WriteKeys(_)
WriteKeys(keys) ==
    IF keys = <<>> THEN <<>> ELSE WriteVarInt(Head(keys)) \o WriteKeys(Tail(keys))

\* [varint entry_count][varint directory_key] * entry_count
WritePacket(keys) == WriteVarInt(Len(keys)) \o WriteKeys(keys)

\* The directory keys a sender may put on the wire, and lists of them.
WireKeys == {0, 1, 5, 128}
WireKeyLists == {<<>>} \cup {<<a>> : a \in WireKeys}
                  \cup {<<a, b>> : a \in WireKeys, b \in WireKeys}

\* The bytes the decoder sees: the buffer from start_offset on.
WireBytes(call) == SubSeq(call.buf, call.start + 1, Len(call.buf))

\* The entry decode_packet is to make of directory key key and offsets
\* element off under id-list id_list.
WireEntry(id_list, key, off) ==
    << IdListMap(id_list)[key], << (off \div 65536) % 65536, off % 65536 >> >>

\* C8: decoding a packet written as count N and N resolvable keys, with at
\* least N offsets, appends exactly the N entries in wire order (onto a fresh
\* palette: they are its whole content) and returns the length of the
\* written packet.
C8_DecodeRoundTrip ==
    [][(last'.op = "decode" /\ last'.h \in LiveHandles) =>
       \A keys \in WireKeyLists :
          ( /\ IsPrefix(WritePacket(keys), WireBytes(last'))
            /\ Len(last'.offs) >= Len(keys)
            /\ \A i \in 1 .. Len(keys) :
                  keys[i] \in DOMAIN IdListMap(Palette(last'.h).id_list) ) =>
          ( /\ ~last'.fatal
            /\ last'.ret = Len(WritePacket(keys))
            /\ entries'[last'.h + 1].store =
                  Palette(last'.h).store \o
                  [i \in 1 .. Len(keys) |->
                      WireEntry(Palette(last'.h).id_list, keys[i], last'.offs[i])] )]_vars

\* C8 witness: count 2 with offsets 0x00030000, 0x00040001 decoded into an
\* empty palette gave {3,0} then {4,1} and returned 3 bytes.
C8_Witness ==
    /\ last.op = "decode" /\ ~last.fatal
    /\ last.buf = <<2, 0, 1>> /\ last.start = 0
    /\ last.offs = <<196608, 262145>>
    /\ last.ret = 3
    /\ last.h \in LiveHandles
    /\ Palette(last.h).store = << <<"h1", <<3, 0>>>>, <<"h2", <<4, 1>>>> >>

\* C9 as stated: a decode_packet whose wire count exceeds the length of the
\* offsets array is fatal.
C9_CountAboveOffsetsIsFatal ==
    (last.op = "decode" /\ last.h \in LiveHandles) =>
        \A n \in 1 .. 9 :
            (IsPrefix(WriteVarInt(n), WireBytes(last)) /\ n > Len(last.offs)) =>
                last.fatal

\* C10: when the keys before entry j resolve and the key of entry j, which
\* the loop reaches, does not, decode_packet is fatal and the palette has
\* grown by exactly the j entries before it.
C10_UnresolvableKeyIsFatal ==
    [][(last'.op = "decode" /\ last'.h \in LiveHandles) =>
       \A keys \in WireKeyLists : \A n \in 1 .. 9 :
          ( /\ keys # <<>>
            /\ n >= Len(keys)
            /\ Len(last'.offs) >= Len(keys)
            /\ IsPrefix(WriteVarInt(n) \o WriteKeys(keys), WireBytes(last'))
            /\ \A i \in 1 .. (Len(keys) - 1) :
                  keys[i] \in DOMAIN IdListMap(Palette(last'.h).id_list)
            /\ keys[Len(keys)] \notin DOMAIN IdListMap(Palette(last'.h).id_list) ) =>
          ( /\ last'.fatal
            /\ last'.ret = 0
            /\ entries'[last'.h + 1].store =
                  Palette(last'.h).store \o
                  [i \in 1 .. (Len(keys) - 1) |->
                      WireEntry(Palette(last'.h).id_list, keys[i], last'.offs[i])] )]_vars

\* C10 witness: count 2, keys 0 and 5 under id-list 1: the call was fatal
\* with only the entry of key 0 appended.
C10_Witness ==
    /\ last.op = "decode" /\ last.fatal
    /\ last.buf = <<2, 0, 5>> /\ last.start = 0
    /\ last.offs = <<196608, 262145>>
    /\ last.h \in LiveHandles
    /\ Palette(last.h).id_list = 1
    /\ Palette(last.h).store = << <<"h1", <<3, 0>>>> >>

\* The operations that take a palette handle from the caller.
HandleOps == {"clear", "destroy", "index", "size", "get", "copy", "decode"}

\* A call with a handle that holds no palette (never issued, or destroyed
\* and not issued again) is fatal and changes nothing in the registry.
VacantHandleIsFatal ==
    [][(last'.op \in HandleOps /\ ~SlabContains(entries, AsUsize(last'.h))) =>
          (last'.fatal /\ entries' = entries /\ next' = next)]_vars

\* C11 as stated: a call with a handle that was never issued, or that was
\* destroyed at any earlier time, is fatal and changes no palette of the
\* registry, whatever create or copy calls were made since the destroy.
C11_StaleHandleIsFatal ==
    [][(/\ last'.op \in HandleOps
        /\ \/ AsUsize(last'.h) >= Len(entries)
           \/ AsUsize(last'.h) \in destroyed.handles) =>
          (last'.fatal /\ entries' = entries /\ next' = next)]_vars

\* The calls that take the lock in exclusive mode on an existing handle.
MutatingOps == {"index", "decode", "clear", "copy", "destroy"}

\* C12 as stated: while a mutating call holds the lock for live handle a, a
\* call on another live handle b that has reached its read() or write() can
\* take the lock at once.
C12_DifferentHandlesDoNotBlock ==
    \A t \in Threads : \A u \in Threads \ {t} :
        ( /\ Holding(t)
          /\ thr[t].call.op \in MutatingOps
          /\ thr[u].pc = "wait"
          /\ thr[u].call.op \in HandleOps
          /\ thr[t].call.h # thr[u].call.h
          /\ {thr[t].call.h, thr[u].call.h} \subseteq LiveHandles ) =>
        CanLock(lock, LockMode(thr[u].call.op))

\* The entry sequence and the reverse index of p agree: every key of
\* indices maps to a valid position holding that key, and every stored key
\* is in indices.
Agree(p) ==
    /\ \A k \in DOMAIN p.indices :
          /\ p.indices[k] < Len(p.store)
          /\ p.store[p.indices[k] + 1][2] = k
    /\ \A i \in 1 .. Len(p.store) : p.store[i][2] \in DOMAIN p.indices

\* C13, the lock: size and get (and debugPalette, which reads as they do)
\* hold it in shared mode with no writer, every mutation holds it alone.
LockDiscipline ==
    \A t \in Threads :
        Holding(t) =>
            IF thr[t].call.op \in {"size", "get", "debug"}
            THEN t \in lock.readers /\ lock.writer = NoThread
            ELSE lock.writer = t /\ lock.readers = {}

\* C13, the readers: while a size or get call (or debugPalette, also while
\* it is out in Wgpu.debug) holds the lock, every live palette's entry
\* sequence and reverse index agree.
NoTornRead ==
    \A t \in Threads :
        (Holding(t) /\ thr[t].call.op \in {"size", "get", "debug"}) =>
            \A h \in LiveHandles : Agree(Palette(h))

\* C13, the copy: the palette copy inserts has all the entries and the whole
\* reverse index its source has at that moment.
CopyIsWhole ==
    \A t \in Threads :
        (thr[t].call.op = "copy" /\ thr[t].pc = "mid" /\ thr'[t].pc = "idle") =>
            /\ SlabContains(entries', next)
            /\ entries'[next + 1].store = Palette(thr[t].call.h).store
            /\ entries'[next + 1].indices = Palette(thr[t].call.h).indices
            /\ entries'[thr[t].call.h + 1] = Palette(thr[t].call.h)

\* C13: under every interleaving the calls on the registry are serialized
\* by the lock (shared for size and get, exclusive for mutations): no reader
\* sees a palette whose entries and reverse index disagree, and a copy is
\* inserted whole.
C13_SameHandleSerialized ==
    /\ [](LockDiscipline /\ NoTornRead)
    /\ [][CopyIsWhole]_vars

\* C13 witness: an index call is between its two updates (the palette's
\* reverse index already has the key, its entries do not) while a size or
\* get call on the same handle waits for the lock.
C13_Witness ==
    \E t \in Threads : \E u \in Threads \ {t} :
        /\ thr[t].pc = "mid" /\ thr[t].call.op = "index"
        /\ thr[u].pc = "wait" /\ thr[u].call.op \in {"size", "get"}
        /\ thr[u].call.h = thr[t].call.h
        /\ thr[t].call.h \in LiveHandles
        /\ ~Agree(Palette(thr[t].call.h))

\* The slots of the slab that hold no palette: the handles destroyed and
\* not issued again.
VacantHandles == {k \in 0 .. (Len(entries) - 1) : ~entries[k + 1].occ}

\* C27: the handle create or copy returns was not live before the call and
\* is live after it, with every handle that was live; while a destroyed
\* handle is not reused, the handle returned is one of those and the slab
\* gets no new slot.
C27_HandlesUniqueAndRecycled ==
    [][(Returned("create") \/ Returned("copy")) =>
          /\ last'.ret \notin LiveHandles
          /\ {k \in 0 .. (Len(entries') - 1) : entries'[k + 1].occ} =
                 LiveHandles \cup {last'.ret}
          /\ VacantHandles # {} =>
                 /\ last'.ret \in VacantHandles
                 /\ Len(entries') = Len(entries)
          /\ VacantHandles = {} => last'.ret = Len(entries)]_vars

\* C27 witness: handle 0 was destroyed while handle 1 was live, and a copy
\* of palette 1 has just been given handle 0.
C27_Witness ==
    /\ last.op = "copy" /\ ~last.fatal /\ last.h = 1 /\ last.ret = 0
    /\ LiveHandles = {0, 1}

\* The handles live after the step.
LiveHandlesAfter == {k \in 0 .. (Len(entries') - 1) : entries'[k + 1].occ}

\* C28: a call of index, add, decode_packet, clear, size, get or destroy
\* on handle h, fatal or not, leaves every other palette live and as it was
\* and makes no handle live; create and copy leave every palette as it was
\* and make no handle live but the one they return; size and get change
\* nothing of the registry.
C28_CallsStayInTheirPalette ==
    [][/\ last'.op \in {"index", "add", "decode", "clear", "size", "get", "destroy"} =>
             /\ \A b \in LiveHandles \ {AsUsize(last'.h)} :
                   SlabContains(entries', b) /\ entries'[b + 1] = entries[b + 1]
             /\ LiveHandlesAfter \subseteq LiveHandles
       /\ last'.op \in {"create", "copy"} =>
             /\ \A b \in LiveHandles :
                   SlabContains(entries', b) /\ entries'[b + 1] = entries[b + 1]
             /\ LiveHandlesAfter =
                   IF last'.fatal THEN LiveHandles ELSE LiveHandles \cup {last'.ret}
       /\ last'.op \in {"size", "get"} =>
             entries' = entries /\ next' = next]_vars

\* C28 witness: palette 0 was just destroyed and palette 1, which holds an
\* entry, is live.
C28_Witness ==
    /\ last.op = "destroy" /\ ~last.fatal /\ last.h = 0
    /\ LiveHandles = {1}
    /\ Len(Palette(1).store) > 0

(***************************************************************************)
(* The command-buffer engine.                                              *)
(***************************************************************************)
\* The calls of log issued for entry i, in order, without their mark.
CallsFor(log, i) ==
    LET IsFor(c) == c.entry = i
        own == SelectSeq(log, IsFor)
    IN  [k \in 1 .. Len(own) |-> [own[k] EXCEPT !.entry = 0]]

\* log is the replay, in order, of the first n entries of sequence seq
\* under directory alloc: the calls come in the order of their entries,
\* every entry has calls, and they are the calls of its arm.
InRecordingOrder(log, seq, n, alloc) ==
    /\ \A k \in 1 .. Len(log) : \A l \in (k + 1) .. Len(log) :
          log[k].entry <= log[l].entry
    /\ {log[k].entry : k \in 1 .. Len(log)} = 1 .. n
    /\ \A i \in 1 .. n : CallsFor(log, i) = Replay(seq[i], alloc).calls

\* C14: a replay in progress has issued, in recording order, the calls of
\* the entries before its position, none skipped, repeated or out of order;
\* a completed replay has done so for the whole sequence.
C14_ReplayInRecordingOrder ==
    /\ pass.active =>
          InRecordingOrder(pass.calls, pass.atStart, pass.pos, gl_alloc)
    /\ prev.valid =>
          InRecordingOrder(prev.calls, prev.atStart, Len(prev.atStart), prev.tex)

\* C14 witness: the replay of Draw, UsePipeline(2), ClearColor has walked
\* its three entries and issued five calls, three of them for ClearColor.
C14_Witness ==
    /\ pass.active /\ pass.pos = 3
    /\ Len(pass.calls) = 5
    /\ Len(CallsFor(pass.calls, 3)) = 3
    /\ pass.calls[1].fn = "draw" /\ pass.calls[2].fn = "set_pipeline"

\* C15: the entries a replay walks are a prefix of, and at its end all of,
\* the sequence that was published when it started, which is a whole frame
\* (or the initial empty sequence), whatever is published or recorded
\* meanwhile.
C15_ReplayWalksOnePublishedSequence ==
    /\ pass.active =>
          /\ IsPrefix(pass.replayed, pass.atStart)
          /\ Len(pass.replayed) = pass.pos
          /\ pass.atStart \in Frames \cup {<<>>}
    /\ prev.valid =>
          /\ prev.walked = prev.atStart
          /\ prev.atStart \in Frames \cup {<<>>}

\* C15 witness: in the middle of a replay another sequence has been
\* published and a third is being recorded.
C15_Witness ==
    /\ pass.active
    /\ pass.pos >= 1 /\ pass.pos < Len(pass.atStart)
    /\ commands # pass.atStart
    /\ recording # <<>>

\* C16 as stated: the replay of an attach-texture entry never fails, and the
\* entry's call binds a bind group at slot 1.
C16_AttachTextureNeverFails ==
    /\ ~( /\ last.fatal /\ last.op = "render"
          /\ pass.atStart[last.pos + 1].cmd = "AttachTexture" )
    /\ \A i \in 1 .. pass.pos :
          pass.atStart[i].cmd = "AttachTexture" =>
              /\ Len(CallsFor(pass.calls, i)) = 1
              /\ CallsFor(pass.calls, i)[1].fn = "set_bind_group"
              /\ CallsFor(pass.calls, i)[1].slot = 1

\* C17, the calls: a replay that ends after an earlier one of the same
\* sequence, with the same directory and no publish since, has issued the
\* same calls in the same order.
SameCallsAgain ==
    ( /\ pass.active /\ ~pass'.active
      /\ prev.valid
      /\ prev.atStart = pass.atStart
      /\ prev.tex = gl_alloc ) =>
    pass.calls = prev.calls

\* C17, the sequence: no step of a replay changes the published sequence.
ReplayKeepsCommands == (pass' # pass) => (commands' = commands)

\* C17: replaying the same published sequence twice issues the same ordered
\* calls, and replay leaves the published sequence as it is.
C17_ReplayDeterminism == [][SameCallsAgain /\ ReplayKeepsCommands]_vars

\* C17 witness: a second replay of the same non-empty sequence has walked
\* all of it, with the same calls as the first.
C17_Witness ==
    /\ pass.active /\ prev.valid
    /\ prev.atStart = pass.atStart /\ prev.tex = gl_alloc
    /\ pass.pos = Len(pass.atStart)
    /\ Len(pass.calls) >= 3
    /\ pass.calls = prev.calls

\* C18 as stated: no draw or draw_indexed call is issued before a
\* set_pipeline call of the same pass.
C18_NoDrawWithoutPipeline ==
    \A k \in 1 .. Len(pass.calls) :
        pass.calls[k].fn \in {"draw", "draw_indexed"} =>
            \E j \in 1 .. (k - 1) : pass.calls[j].fn = "set_pipeline"

\* The catalog pipelines of indices 0, 1 and 2.
PipelineNames ==
    <<"pos_col_uint", "pos_tex", "wgpu_mc_ogl:pipelines/pos_col_float3">>

\* The entry the replay is about to walk is a select-pipeline entry with an
\* index other than 0, 1, 2.
AtUnknownPipeline ==
    /\ pass.active
    /\ pass.pos < Len(pass.atStart)
    /\ pass.atStart[pass.pos + 1].cmd = "UsePipeline"
    /\ pass.atStart[pass.pos + 1].arg \notin {0, 1, 2}

\* C19: every select-pipeline entry walked had index 0, 1 or 2 and issued
\* set_pipeline with the catalog pipeline of that index; at a
\* select-pipeline entry with another index the replay goes no further, and
\* the step it takes there is fatal, with the calls of the earlier entries
\* issued and nothing else.
C19_UsePipelineBindsOrTraps ==
    /\ [](\A i \in 1 .. pass.pos :
            pass.atStart[i].cmd = "UsePipeline" =>
                /\ pass.atStart[i].arg \in {0, 1, 2}
                /\ CallsFor(pass.calls, i) =
                      <<BackendCall("set_pipeline", 0,
                                    PipelineNames[pass.atStart[i].arg + 1], 0)>>)
    /\ [][AtUnknownPipeline =>
            /\ pass' = pass
            /\ last' # last =>
                  /\ last'.fatal /\ last'.op = "render" /\ last'.pos = pass.pos
                  /\ {pass.calls[k].entry : k \in 1 .. Len(pass.calls)} = 1 .. pass.pos]_vars

\* C19 witness: the replay of UsePipeline(0), UsePipeline(3), Draw stopped
\* fatally at its second entry, with the one call of the first issued.
C19_Witness ==
    /\ last.fatal /\ last.op = "render" /\ last.pos = 1
    /\ pass.active /\ pass.pos = 1
    /\ pass.atStart[2] = GLCommand("UsePipeline", 3)
    /\ pass.calls = <<[BackendCall("set_pipeline", 0, "pos_col_uint", 0) EXCEPT !.entry = 1]>>

\* C21: create with a non-zero id-list handle returns a handle that was not
\* live, on a new palette that is empty (size 0, empty reverse index) and
\* bound to that id-list, and changes nothing else; create with id-list
\* handle 0 is fatal and leaves the registry as it was.
C21_CreateAddsOneEmptyPalette ==
    [][last'.op = "create" =>
          IF last'.id_list = 0
          THEN last'.fatal /\ entries' = entries /\ next' = next
          ELSE /\ ~last'.fatal
               /\ last'.ret \notin LiveHandles
               /\ SlabContains(entries', last'.ret)
               /\ JavaPalette_size(entries'[last'.ret + 1]) = 0
               /\ entries'[last'.ret + 1].store = <<>>
               /\ DOMAIN entries'[last'.ret + 1].indices = {}
               /\ entries'[last'.ret + 1].id_list = last'.id_list
               /\ {k \in 0 .. (Len(entries') - 1) : entries'[k + 1].occ} =
                      LiveHandles \cup {last'.ret}
               /\ \A b \in LiveHandles : entries'[b + 1] = entries[b + 1]]_vars

\* C21 witness: beside a palette that holds an entry, create(2) has just
\* returned a handle on an empty palette bound to id-list 2.
C21_Witness ==
    /\ last.op = "create" /\ ~last.fatal /\ last.id_list = 2
    /\ last.ret \in LiveHandles
    /\ Palette(last.ret).store = <<>>
    /\ Palette(last.ret).id_list = 2
    /\ \E b \in LiveHandles \ {last.ret} : Len(Palette(b).store) > 0

\* C21 witness of the failure: create(0) was fatal beside a live palette.
C21_NullIdListRefused ==
    /\ last.op = "create" /\ last.fatal /\ last.id_list = 0
    /\ LiveHandles # {}

\* What bind-group slot slot holds after the calls of log: the last
\* set_bind_group call for it, as a sequence of none or one.
SlotHolds(log, slot) ==
    LET IsBind(c) == c.fn = "set_bind_group" /\ c.slot = slot
        own == SelectSeq(log, IsBind)
    IN  IF own = <<>> THEN <<>> ELSE <<own[Len(own)]>>

\* The position of the last entry of one of the variants cmds among the
\* first n entries of seq (0: there is none).
LastEntry(seq, n, cmds) ==
    LET at == {i \in 1 .. n : seq[i].cmd \in cmds} IN
    IF at = {} THEN 0 ELSE CHOOSE i \in at : \A j \in at : j <= i

\* C23: during a replay slot 0 holds the bind group of the last bind-matrix
\* entry walked (nothing when there was none) and slot 1 the texture of the
\* last attach-texture entry walked; a bind-matrix entry binds at slot 0
\* only, an attach-texture entry at slot 1 only, and no other entry binds a
\* bind group.
C23_SlotsFollowLastBind ==
    pass.active =>
        LET m  == LastEntry(pass.atStart, pass.pos, {"SetMatrix"})
            t  == LastEntry(pass.atStart, pass.pos, {"AttachTexture"})
            s0 == SlotHolds(pass.calls, 0)
            s1 == SlotHolds(pass.calls, 1)
        IN  /\ IF m = 0 THEN Len(s0) = 0
               ELSE /\ Len(s0) = 1
                    /\ s0[1].entry = m
                    /\ s0[1].res = "matrix4"
                    /\ s0[1].n = pass.atStart[m].arg
            /\ IF t = 0 THEN Len(s1) = 0
               ELSE /\ Len(s1) = 1
                    /\ s1[1].entry = t
                    /\ s1[1].res \in {"texture", "black_texture"}
                    /\ s1[1].res = "texture" => s1[1].n = pass.atStart[t].arg
            /\ \A k \in 1 .. Len(pass.calls) :
                  LET c == pass.calls[k] IN
                  c.fn = "set_bind_group" =>
                      \/ c.slot = 0 /\ pass.atStart[c.entry].cmd = "SetMatrix"
                      \/ c.slot = 1 /\ pass.atStart[c.entry].cmd = "AttachTexture"

\* C23 witness: after SetMatrix(4), AttachTexture(1), UsePipeline(1) and
\* SetMatrix(5), slot 0 holds the bind group of matrix 5 and slot 1 still
\* the texture of unit 1.
C23_Witness ==
    /\ pass.active /\ pass.pos >= 4
    /\ pass.atStart[4] = GLCommand("SetMatrix", 5)
    /\ SlotHolds(pass.calls, 0)[1].n = 5
    /\ SlotHolds(pass.calls, 1)[1].entry = 2
    /\ SlotHolds(pass.calls, 1)[1].res = "texture"

\* The position of vertex j (1 to 6) in the vertex data contents.
QuadCorner(contents, j) == <<contents[5 * (j - 1) + 1], contents[5 * (j - 1) + 2]>>

\* contents is six vertices of x, y, r, g, b: two triangles that share a
\* diagonal of the square [-1,1] x [-1,1] and between them have its four
\* corners, every vertex with the colour r, g, b.
IsClearQuad(contents, r, g, b) ==
    /\ Len(contents) = 30
    /\ \A j \in 1 .. 6 :
          /\ QuadCorner(contents, j)[1] \in {0 - 1, 1}
          /\ QuadCorner(contents, j)[2] \in {0 - 1, 1}
          /\ contents[5 * (j - 1) + 3] = r
          /\ contents[5 * (j - 1) + 4] = g
          /\ contents[5 * (j - 1) + 5] = b
    /\ LET one == {QuadCorner(contents, j) : j \in 1 .. 3}
           two == {QuadCorner(contents, j) : j \in 4 .. 6}
       IN  /\ Cardinality(one) = 3 /\ Cardinality(two) = 3
           /\ Cardinality(one \cup two) = 4
           /\ \A v \in one \cap two : \A w \in one \cap two :
                 v # w => (v[1] # w[1] /\ v[2] # w[2])

\* The last call of function fn in log, as a sequence of none or one.
LastCall(log, fn) ==
    LET IsFn(c) == c.fn = fn
        own == SelectSeq(log, IsFn)
    IN  IF own = <<>> THEN <<>> ELSE <<own[Len(own)]>>

\* C24: a clear-color entry issues set_pipeline with the clear pipeline,
\* set_vertex_buffer at slot 0 with the two-triangle quad in the entry's
\* colour, and draw of 6 vertices and 1 instance, in this order and nothing
\* else; until a later select-pipeline (set-vertex-data) entry is walked
\* the clear pipeline (the quad) stays what the pass has bound.
C24_ClearColorDrawsQuad ==
    pass.active =>
        /\ \A i \in 1 .. pass.pos :
              pass.atStart[i].cmd = "ClearColor" =>
                  LET cs  == CallsFor(pass.calls, i)
                      rgb == ColourOf(pass.atStart[i].arg)
                  IN  /\ Len(cs) = 3
                      /\ cs[1].fn = "set_pipeline" /\ cs[1].res = "clearcolor"
                      /\ cs[2].fn = "set_vertex_buffer" /\ cs[2].slot = 0
                      /\ IsClearQuad(cs[2].contents, rgb[1], rgb[2], rgb[3])
                      /\ cs[3].fn = "draw" /\ cs[3].n = 6 /\ cs[3].instances = 1
        /\ LET p == LastEntry(pass.atStart, pass.pos, {"UsePipeline", "ClearColor"})
               v == LastEntry(pass.atStart, pass.pos, {"SetVertexBuffer", "ClearColor"})
           IN  /\ (p > 0 /\ pass.atStart[p].cmd = "ClearColor") =>
                     /\ LastCall(pass.calls, "set_pipeline")[1].res = "clearcolor"
                     /\ LastCall(pass.calls, "set_pipeline")[1].entry = p
               /\ (v > 0 /\ pass.atStart[v].cmd = "ClearColor") =>
                     /\ LastCall(pass.calls, "set_vertex_buffer")[1].entry = v
                     /\ Len(LastCall(pass.calls, "set_vertex_buffer")[1].contents) = 30

\* C24 witness: after UsePipeline(2) and ClearColor(1, 2, 3) a Draw entry
\* was walked: its draw is the last call, and the pipeline the pass has
\* bound is the clear pipeline.
C24_Witness ==
    /\ pass.active /\ pass.pos = 4
    /\ pass.atStart[2].cmd = "UsePipeline"
    /\ pass.atStart[3] = GLCommand("ClearColor", 123)
    /\ pass.calls[Len(pass.calls)].fn = "draw"
    /\ pass.calls[Len(pass.calls)].entry = 4
    /\ LastCall(pass.calls, "set_pipeline")[1].res = "clearcolor"
    /\ CallsFor(pass.calls, 3)[2].contents[3] = 1
    /\ CallsFor(pass.calls, 3)[2].contents[4] = 2
    /\ CallsFor(pass.calls, 3)[2].contents[5] = 3

\* The black texture every call of log that binds the fallback binds.
BlackBound(log) ==
    {log[k].n : k \in {j \in 1 .. Len(log) : log[j].res = "black_texture"}}

\* C25: once set, the cell of the fallback texture keeps the texture the
\* first build made, whatever step is taken (a later build, a replay); and
\* every call of every replay that binds the fallback binds that texture.
C25_BlackTextureSetOnce ==
    /\ [](/\ black_texture # <<>> => black_texture = <<1>>
          /\ BlackBound(pass.calls) \subseteq {1}
          /\ BlackBound(prev.calls) \subseteq {1})
    /\ [][black_texture # <<>> => black_texture' = black_texture]_vars

\* C25 witness: the pipelines were built twice, and a replay before and a
\* replay after the second build have bound the fallback.
C25_Witness ==
    /\ device.textures = 2
    /\ black_texture = <<1>>
    /\ prev.valid /\ BlackBound(prev.calls) = {1}
    /\ pass.active /\ BlackBound(pass.calls) = {1}

\* The calls that bind a transient object: a vertex buffer, an index
\* buffer, the bind group of a matrix.
BindsTransient(c) ==
    \/ c.fn \in {"set_vertex_buffer", "set_index_buffer"}
    \/ c.fn = "set_bind_group" /\ c.slot = 0

ArenaIds(arena) == {arena[j].id : j \in 1 .. Len(arena)}

\* C26, the objects: the arena's objects are distinct; the object a call
\* binds was made in this render pass, for the entry of the call, is in the
\* arena and is bound by no other call; the bind group of a matrix follows
\* the uniform buffer made for the same entry; no object of the arena is
\* one of the replay before.
TransientsAreFresh ==
    pass.active =>
        /\ Len(pass.binds) = Len(pass.calls)
        /\ \A j \in 1 .. Len(pass.arena) : \A l \in 1 .. Len(pass.arena) :
              pass.arena[j].id = pass.arena[l].id => j = l
        /\ \A k \in 1 .. Len(pass.calls) :
              BindsTransient(pass.calls[k]) =>
                  /\ \E j \in 1 .. Len(pass.arena) :
                        /\ pass.arena[j].id = pass.binds[k]
                        /\ pass.arena[j].entry = pass.calls[k].entry
                        /\ pass.arena[j].kind \in {"VERTEX", "INDEX", "bind_group"}
                        /\ pass.arena[j].id[1] = pass.frame
                  /\ \A l \in 1 .. Len(pass.calls) :
                        pass.binds[l] = pass.binds[k] => l = k
        /\ \A j \in 1 .. Len(pass.arena) :
              pass.arena[j].kind = "bind_group" =>
                  /\ j > 1
                  /\ pass.arena[j - 1].kind = "UNIFORM"
                  /\ pass.arena[j - 1].entry = pass.arena[j].entry
        /\ prev.valid => ArenaIds(pass.arena) \cap ArenaIds(prev.arena) = {}

\* C26, the arena: while the replay goes on no object leaves the arena or
\* changes place in it.
ArenaOnlyGrows ==
    (pass.active /\ pass'.active) => IsPrefix(pass.arena, pass'.arena)

\* C26: every transient object a replay binds is made for its entry and
\* placed in the arena of the pass before it is bound; the replay frees and
\* reuses none, and binds none of an earlier replay.
C26_TransientsScopedToPass == []TransientsAreFresh /\ [][ArenaOnlyGrows]_vars

\* C26 witness: the second replay of the frame that sets two matrices and
\* an index buffer has made its own five transient objects, after the
\* first replay made its five.
C26_Witness ==
    /\ pass.active /\ pass.frame = 2 /\ pass.pos = 6
    /\ prev.valid /\ prev.atStart = pass.atStart
    /\ Cardinality({j \in 1 .. Len(pass.arena) :
                       pass.arena[j].kind \in {"UNIFORM", "bind_group", "INDEX"}}) = 5
    /\ Cardinality({j \in 1 .. Len(prev.arena) :
                       prev.arena[j].kind \in {"UNIFORM", "bind_group", "INDEX"}}) = 5

(***************************************************************************)
(* Directions.                                                             *)
(***************************************************************************)
\* v has exactly one non-zero component, of magnitude 1.
IsUnitAxis(v) ==
    /\ Len(v) = 3
    /\ \A c \in 1 .. 3 : v[c] \in {0 - 1, 0, 1}
    /\ Cardinality({c \in 1 .. 3 : v[c] # 0}) = 1

\* C22: every step is along a vector with exactly one non-zero component
\* of magnitude 1; a step taken by turning round is along another direction
\* than the step before it, along the negated vector, and brings the walker
\* back where that step began; turning round twice gives the direction
\* turned from; steps along different directions are along different
\* vectors.
C22_DirectionsAreUnitAndOpposed ==
    LET s == walk.steps IN
    /\ \A i \in 1 .. Len(s) :
          /\ s[i].d \in Direction
          /\ IsUnitAxis(s[i].vec)
          /\ (s[i].turned /\ i > 1) =>
                /\ s[i].d # s[i - 1].d
                /\ \A c \in 1 .. 3 : s[i].vec[c] = 0 - s[i - 1].vec[c]
                /\ IVec3Add(s[i].from, s[i].vec) = s[i - 1].from
          /\ (s[i].turned /\ i > 2 /\ s[i - 1].turned) => s[i].d = s[i - 2].d
    /\ \A i \in 1 .. Len(s) : \A j \in 1 .. Len(s) :
          (s[i].d = s[j].d) <=> (s[i].vec = s[j].vec)
    /\ (s # <<>>) => walk.at = IVec3Add(s[Len(s)].from, s[Len(s)].vec)

\* C22 witness: a step South, then two turns: North along (0,0,-1), South
\* again, and the walker is one block south of the origin.
C22_Witness ==
    /\ Len(walk.steps) = 3
    /\ walk.steps[1].d = "South" /\ ~walk.steps[1].turned
    /\ walk.steps[2].d = "North" /\ walk.steps[2].turned
    /\ walk.steps[2].vec = <<0, 0, 0 - 1>>
    /\ walk.steps[3].d = "South" /\ walk.steps[3].turned
    /\ walk.at = <<0, 0, 1>>

(***************************************************************************)
(* Variable-length integers.                                               *)
(***************************************************************************)
\* The bytes of vec after position from go on to a byte with bit 7 clear.
Terminated(vec, from) == \E j \in (from + 1) .. Len(vec) : vec[j] < 128

\* The number of bytes from position from up to and including the first
\* byte with bit 7 clear.
EncodedLen(vec, from) ==
    (CHOOSE j \in (from + 1) .. Len(vec) :
        /\ vec[j] < 128
        /\ \A i \in (from + 1) .. (j - 1) : vec[i] >= 128) - from

\* The sum of (byte_i & 0x7f) << (7 * i) over the k bytes after position
\* from, k <= 4.
RECURSIVE Base128(_, _, _)
Base128(vec, from, k) ==
    IF k = 0 THEN 0
    ELSE Base128(vec, from, k - 1) + (vec[from + k] % 128) * (2 ^ (7 * (k - 1)))

\* The same sum for k <= 5 bytes as a 32-bit signed value: of the fifth
\* byte's payload, bits 0..3 land on bits 28..31 and the rest is shifted out.
Base128AsI32(vec, from, k) ==
    IF k <= 4 THEN Base128(vec, from, k)
    ELSE LET low == Base128(vec, from, 4)
             top == vec[from + 5] % 16
         IN  IF top >= 8 THEN ((low + (top - 8) * 268435456) - 2147483647) - 1
             ELSE low + top * 268435456

\* C20: a read from a position followed by at most four bytes with bit 7
\* set and then one with bit 7 clear returns the base-128 sum of their
\* payloads, low group first, and moves the cursor past exactly those
\* bytes; a read from a position followed by five bytes with bit 7 set is
\* fatal.
C20_VarIntIsLittleEndianBase128 ==
    (cursor.open /\ cursor.reads > 0) =>
        LET vec == cursor.vec
            from == cursor.from
        IN  /\ (Terminated(vec, from) /\ EncodedLen(vec, from) <= 5) =>
                  /\ ~cursor.fatal
                  /\ cursor.pos = from + EncodedLen(vec, from)
                  /\ cursor.value = Base128AsI32(vec, from, EncodedLen(vec, from))
            /\ ( /\ Len(vec) >= from + 5
                 /\ \A i \in (from + 1) .. (from + 5) : vec[i] >= 128 ) =>
                  cursor.fatal

\* C20 witness: after a one-byte value, 0xff 0x0f was read as 127 + 15 * 128
\* and the cursor moved from 1 to 3.
C20_Witness ==
    /\ cursor.open /\ ~cursor.fatal
    /\ cursor.reads = 2
    /\ cursor.from = 1 /\ cursor.pos = 3
    /\ cursor.vec[2] = 255 /\ cursor.vec[3] = 15
    /\ cursor.value = 2047

\* C20 witness of the framing error: five continuation bytes and a last
\* byte were refused.
C20_OverlongRefused ==
    /\ cursor.open /\ cursor.fatal
    /\ cursor.vec = <<128, 128, 128, 128, 128, 0>>

(***************************************************************************)
(* Decodes that fail part of the way.                                      *)
(***************************************************************************)
\* No whole varint starts after position from of vec: the bytes end before
\* a byte with bit 7 clear, or more than five bytes come before one.
NoVarIntAt(vec, from) == ~Terminated(vec, from) \/ EncodedLen(vec, from) > 5

\* The counts a packet of the model may begin with: 1 to 9, and 2^28.
WireCounts == (1 .. 9) \cup {268435456}

\* The last i in 1 .. k whose entry has block-state key x (0: none).
LastWithKey(offs, k, x) ==
    LET at == {i \in 1 .. k : << (offs[i] \div 65536) % 65536, offs[i] % 65536 >> = x} IN
    IF at = {} THEN 0 ELSE CHOOSE i \in at : \A j \in at : j <= i

\* q is p with the entries of the first k directory keys of keys appended
\* and recorded in the reverse index, and nothing else changed.
GrewBy(p, q, keys, offs, k) ==
    /\ Len(q.store) = Len(p.store) + k
    /\ q.store = p.store \o [i \in 1 .. k |-> WireEntry(p.id_list, keys[i], offs[i])]
    /\ q.id_list = p.id_list
    /\ DOMAIN q.indices =
          (DOMAIN p.indices) \cup {WireEntry(p.id_list, keys[i], offs[i])[2] : i \in 1 .. k}
    /\ \A x \in DOMAIN q.indices :
          q.indices[x] = IF LastWithKey(offs, k, x) > 0
                         THEN Len(p.store) + LastWithKey(offs, k, x) - 1
                         ELSE p.indices[x]

\* C29: a decode_packet whose count prefix is no whole varint is fatal and
\* leaves the palette as it was; one that, after a count and k resolvable
\* keys, reaches entry k and finds no whole varint or a key the id-list
\* does not resolve is fatal and leaves the palette with exactly those k
\* entries appended and recorded in the reverse index.
C29_DecodeKeepsEntriesBeforeFailure ==
    [][(last'.op = "decode" /\ last'.h \in LiveHandles) =>
          LET wire == WireBytes(last')
              p    == Palette(last'.h)
              q    == entries'[last'.h + 1]
              dir  == DOMAIN IdListMap(p.id_list)
          IN  /\ NoVarIntAt(wire, 0) => (last'.fatal /\ entries' = entries)
              /\ \A keys \in WireKeyLists : \A n \in WireCounts :
                    LET pre == WriteVarInt(n) \o WriteKeys(keys) IN
                    ( /\ IsPrefix(pre, wire)
                      /\ \A i \in 1 .. Len(keys) : keys[i] \in dir
                      /\ Len(keys) < n
                      /\ Len(keys) < Len(last'.offs)
                      /\ \/ NoVarIntAt(wire, Len(pre))
                         \/ \E bad \in WireKeys \ dir :
                               IsPrefix(pre \o WriteVarInt(bad), wire) ) =>
                    ( /\ last'.fatal
                      /\ GrewBy(p, q, keys, last'.offs, Len(keys)) )]_vars

\* C29 witness: count 2, key 0 and a key cut short, decoded into a palette
\* that held one entry: the call was fatal and the palette holds two.
C29_Witness ==
    /\ last.op = "decode" /\ last.fatal
    /\ last.buf = <<2, 0, 128>> /\ last.start = 0
    /\ last.offs = <<196608, 262145>>
    /\ last.h \in LiveHandles
    /\ Palette(last.h).id_list = 1
    /\ Len(Palette(last.h).store) = 2
    /\ Palette(last.h).store[2] = <<"h1", <<3, 0>>>>
    /\ Palette(last.h).indices[<<3, 0>>] = 1

\* C29 witness of a failure in the count prefix: five continuation bytes
\* and a last byte were refused, and the palette kept its one entry.
C29_CountPrefixRefused ==
    /\ last.op = "decode" /\ last.fatal
    /\ last.buf = <<128, 128, 128, 128, 128, 1>> /\ last.start = 0
    /\ last.h \in LiveHandles
    /\ Len(Palette(last.h).store) = 1

====
